---------------------------- MODULE Spec2Model ----------------------------
(***************************************************************************)
(* A model of the SnapCast video-sharing application.                      *)
(*                                                                         *)
(*   SpecUtils : the pure helpers of src/lib/utils.ts (withErrorHandling,  *)
(*               generatePagination, updateURLParams), applied to inputs   *)
(*               drawn from bounded sets.                                  *)
(*   SpecQuery : the read-only server actions getAllVideos and             *)
(*               getAllVideosByUser of src/unnamed/part_005 on a database  *)
(*               drawn from a bounded set.                                 *)
(*   SpecHook  : the useScreenRecording hook of                            *)
(*               src/lib/hooks/useScreenRecording.ts with the browser      *)
(*               objects it drives (MediaRecorder, tracks, object URLs).   *)
(*                                                                         *)
(* JavaScript strings that the code takes apart are sequences of           *)
(* one-character strings; other strings are TLA+ strings.                  *)
(***************************************************************************)
EXTENDS Integers, Sequences, FiniteSets, TLC

VARIABLES
    \* ---- SpecUtils
    utilCall,           \* the last helper call: its name, arguments, result
    \* ---- SpecQuery
    session,            \* the caller's session user id, NoSession without one
    users,              \* ids of the rows of the user table
    videos,             \* the rows of the videos table, in insertion order
    qres,               \* the last query: its name, arguments, result
    browse,             \* the pages a visitor fetched for one search/sort/size
    \* ---- SpecHook: React state and refs of useScreenRecording
    state,              \* BunnyRecordingState
    mounted,            \* the component using the hook is mounted
    mediaRecorderRef,
    streamRef,
    chunksRef,
    audioContextRef,
    startTimeRef,
    \* ---- SpecHook: the browser
    recState,           \* MediaRecorder.state of each recorder
    events,             \* recorder event tasks queued, in order
    trackState,         \* readyState of each MediaStreamTrack
    ctxClosed,          \* the AudioContexts that were closed
    urlBlob,            \* the blob behind each object URL created, in order
    revoked,            \* the object URLs revoked
    now,                \* Date.now(), in seconds
    dataCount,          \* timeslice dataavailable events each recorder fired
    \* ---- SpecHook: the startRecording calls, by number
    pc,                 \* where each call is: "notCalled", "awaitDisplay",
                        \* "awaitMic" or "returned"
    call,               \* each call's locals: withMic, hasDisplayAudio
    nAttempts,          \* startRecording calls made so far
    \* ---- SpecHook: observers
    delivered,          \* per recorder, the non-empty chunks it delivered
    lastOp,             \* the last hook operation and how it ended
    startResult,        \* what each startRecording call resolved to
    startThrew,         \* the step of each call that threw
    resetSince,         \* resetRecording ran, no startRecording since
    \* ---- SpecActions: the server actions that write
    limiter,            \* Arcjet fixed window: requests counted per fingerprint
    srvNow,             \* new Date() on the server
    act,                \* the last server action: arguments, requests, result
    incCalls,           \* the incrementVideoViews calls, by number
    videos0,            \* the videos table as constructed
    \* ---- SpecPlayer: VideoPlayer
    vp                  \* the component and its requests in flight

utilVars == <<utilCall>>

queryVars == <<session, users, videos, qres, browse>>

hookVars == <<state, mounted, mediaRecorderRef, streamRef, chunksRef,
              audioContextRef, startTimeRef, recState, events, trackState,
              ctxClosed, urlBlob, revoked, now, dataCount, pc, call,
              nAttempts, delivered, lastOp, startResult, startThrew,
              resetSince>>

\* The server actions that write, and the player: see their sections.
restVars == <<limiter, srvNow, act, incCalls, videos0, vp>>

vars == <<utilVars, queryVars, hookVars, restVars>>

(***************************************************************************)
(* JavaScript values that cross a function boundary, tagged by type.       *)
(***************************************************************************)
JsStr(s) == [t |-> "string", v |-> s]

JsObj(o) == [t |-> "object", v |-> o]

JsUndefined == [t |-> "undefined"]

JsNull == [t |-> "null"]

(***************************************************************************)
(* What awaiting an async function does: it returns a value or throws.     *)
(***************************************************************************)
Returned(v) == [kind |-> "returned", value |-> v]

ThrewError(msg) == [kind |-> "threw", isError |-> TRUE, message |-> msg]

ThrewValue(v) == [kind |-> "threw", isError |-> FALSE, value |-> v]

Resolved(v) == [kind |-> "resolved", value |-> v]

Rejected(e) == [kind |-> "rejected", reason |-> e]

\* Faulty variant of withErrorHandling: only Error instances are caught.
withErrorHandling_rethrowNonError(outcome) ==
    IF outcome.kind = "returned" THEN Resolved(outcome.value)
    ELSE IF outcome.isError THEN Resolved(JsStr(outcome.message))
    ELSE Rejected(outcome.value)

\* src/lib/utils.ts withErrorHandling: what the wrapper's promise settles to
\* when `await fn(...args)` had the given outcome.
withErrorHandling(outcome) ==
    IF outcome.kind = "returned" THEN Resolved(outcome.value)
    ELSE Resolved(JsStr(IF outcome.isError
                        THEN outcome.message
                        ELSE "Unknown error occurred"))

(***************************************************************************)
(* generatePagination                                                      *)
(***************************************************************************)
\* The "..." entry of a pagination list; page numbers are >= 1.
Ellipsis == 0

\* Faulty variant of generatePagination: the tail window starts one page late.
generatePagination_lateTail(currentPage, totalPages) ==
    IF totalPages <= 7 THEN [i \in 1..totalPages |-> i]
    ELSE IF currentPage <= 3
    THEN <<1, 2, 3, 4, 5, Ellipsis, totalPages>>
    ELSE IF currentPage >= totalPages - 1
    THEN <<1, Ellipsis, totalPages - 4, totalPages - 3, totalPages - 2,
           totalPages - 1, totalPages>>
    ELSE <<1, Ellipsis, currentPage - 1, currentPage, currentPage + 1,
           Ellipsis, totalPages>>

generatePagination(currentPage, totalPages) ==
    IF totalPages <= 7 THEN [i \in 1..totalPages |-> i]
    ELSE IF currentPage <= 3
    THEN <<1, 2, 3, 4, 5, Ellipsis, totalPages>>
    ELSE IF currentPage >= totalPages - 2
    THEN <<1, Ellipsis, totalPages - 4, totalPages - 3, totalPages - 2,
           totalPages - 1, totalPages>>
    ELSE <<1, Ellipsis, currentPage - 1, currentPage, currentPage + 1,
           Ellipsis, totalPages>>

(***************************************************************************)
(* URLSearchParams and updateURLParams.  A parameter list is a sequence of *)
(* <<name, value>> pairs; names, values and URLs are sequences of          *)
(* one-character strings.                                                  *)
(***************************************************************************)
RECURSIVE Flatten(_)
Flatten(ss) == IF ss = <<>> THEN <<>> ELSE Head(ss) \o Flatten(Tail(ss))

\* application/x-www-form-urlencoded byte serializer, on the characters the
\* model uses: letters and digits stay, a space becomes "+", the rest is
\* percent-encoded.
EncodeChar(c) ==
    CASE c = " " -> <<"+">>
      [] c = "&" -> <<"%", "2", "6">>
      [] c = "=" -> <<"%", "3", "D">>
      [] c = "+" -> <<"%", "2", "B">>
      [] c = "%" -> <<"%", "2", "5">>
      [] c = "?" -> <<"%", "3", "F">>
      [] c = "/" -> <<"%", "2", "F">>
      [] OTHER -> <<c>>

EncodeString(s) == Flatten([i \in 1..Len(s) |-> EncodeChar(s[i])])

\* The character a percent-escape stands for; <<>> when h1 h2 is none of
\* the escapes above.
DecodeEscape(h1, h2) ==
    CASE h1 = "2" /\ h2 = "6" -> <<"&">>
      [] h1 = "3" /\ h2 = "D" -> <<"=">>
      [] h1 = "2" /\ h2 = "B" -> <<"+">>
      [] h1 = "2" /\ h2 = "5" -> <<"%">>
      [] h1 = "3" /\ h2 = "F" -> <<"?">>
      [] h1 = "2" /\ h2 = "F" -> <<"/">>
      [] OTHER -> <<>>

\* urlencoded decoding of one name or value: "+" is a space, a known
\* escape is its character, anything else is kept.
RECURSIVE DecodeString(_)
DecodeString(s) ==
    IF s = <<>> THEN <<>>
    ELSE IF Head(s) = "+" THEN <<" ">> \o DecodeString(Tail(s))
    ELSE IF Head(s) = "%" /\ Len(s) >= 3 /\ DecodeEscape(s[2], s[3]) # <<>>
    THEN DecodeEscape(s[2], s[3]) \o DecodeString(SubSeq(s, 4, Len(s)))
    ELSE <<Head(s)>> \o DecodeString(Tail(s))

\* URLSearchParams.prototype.toString
RECURSIVE URLSearchParams_toString(_)
URLSearchParams_toString(params) ==
    IF params = <<>> THEN <<>>
    ELSE EncodeString(params[1][1]) \o <<"=">> \o EncodeString(params[1][2])
         \o (IF Len(params) > 1
             THEN <<"&">> \o URLSearchParams_toString(Tail(params))
             ELSE <<>>)

\* The position of the first c in s, 0 when there is none.
RECURSIVE IndexOf(_, _, _)
IndexOf(s, c, from) ==
    IF from > Len(s) THEN 0
    ELSE IF s[from] = c THEN from
    ELSE IndexOf(s, c, from + 1)

\* s split on every c.
RECURSIVE Split(_, _)
Split(s, c) ==
    LET i == IndexOf(s, c, 1)
    IN  IF i = 0 THEN <<s>>
        ELSE <<SubSeq(s, 1, i - 1)>> \o Split(SubSeq(s, i + 1, Len(s)), c)

\* One "name=value" piece parsed: split on the first "=", both decoded.
ParsePiece(piece) ==
    LET i == IndexOf(piece, "=", 1)
    IN  IF i = 0 THEN <<DecodeString(piece), <<>>>>
        ELSE <<DecodeString(SubSeq(piece, 1, i - 1)),
               DecodeString(SubSeq(piece, i + 1, Len(piece)))>>

\* new URLSearchParams(string): a leading "?" is dropped, the string is
\* split on "&", empty pieces are skipped.
URLSearchParams_parse(str) ==
    LET body == IF str # <<>> /\ Head(str) = "?" THEN Tail(str) ELSE str
        pieces == SelectSeq(Split(body, "&"), LAMBDA p : p # <<>>)
    IN  [i \in 1..Len(pieces) |-> ParsePiece(pieces[i])]

HasName(params, name) == \E i \in 1..Len(params) : params[i][1] = name

FirstIndex(params, name) ==
    CHOOSE i \in 1..Len(params) :
        /\ params[i][1] = name
        /\ \A j \in 1..(i - 1) : params[j][1] # name

\* URLSearchParams.prototype.set: the first pair of that name takes the
\* value and the others of that name go; without one, a pair is appended.
URLSearchParams_set(params, name, value) ==
    IF HasName(params, name)
    THEN LET first == FirstIndex(params, name)
             kept == {i \in 1..Len(params) :
                          i = first \/ params[i][1] # name}
             Pick(i) == IF i = first THEN <<name, value>> ELSE params[i]
             RECURSIVE Build(_)
             Build(i) == IF i > Len(params) THEN <<>>
                         ELSE (IF i \in kept THEN <<Pick(i)>> ELSE <<>>)
                              \o Build(i + 1)
         IN  Build(1)
    ELSE Append(params, <<name, value>>)

\* URLSearchParams.prototype.delete
URLSearchParams_delete(params, name) ==
    SelectSeq(params, LAMBDA p : p[1] # name)

\* A value of the updates record: a string, null or undefined.
Truthy(value) == value.t = "string" /\ value.v # <<>>

\* Faulty variant of ApplyUpdate: any string, also the empty one, is set.
ApplyUpdate_setsEmpty(params, name, value) ==
    IF value.t = "string"
    THEN URLSearchParams_set(params, name, value.v)
    ELSE URLSearchParams_delete(params, name)

\* The body of the forEach of updateURLParams.
ApplyUpdate(params, name, value) ==
    IF Truthy(value)
    THEN URLSearchParams_set(params, name, value.v)
    ELSE URLSearchParams_delete(params, name)

\* Object.entries(updates).forEach(...), updates given as its entries.
RECURSIVE ApplyUpdates(_, _)
ApplyUpdates(params, updates) ==
    IF updates = <<>> THEN params
    ELSE ApplyUpdates(ApplyUpdate(params, updates[1][1], updates[1][2]),
                      Tail(updates))

\* updateURLParams: the URL returned, and currentParams as the call leaves
\* it (the code works on a copy made through toString and a parse).
updateURLParams(currentParams, updates, basePath) ==
    LET params == URLSearchParams_parse(URLSearchParams_toString(currentParams))
    IN  [url |-> basePath \o <<"?">>
                 \o URLSearchParams_toString(ApplyUpdates(params, updates)),
         currentParams |-> currentParams]

(***************************************************************************)
(* SpecUtils: the helpers applied to inputs drawn from bounded sets.       *)
(***************************************************************************)
\* Largest totalPages handed to generatePagination.
MaxTotalPages == 10

\* Longest currentParams handed to updateURLParams.
MaxParams == 2

\* Most entries of the updates record.
MaxUpdates == 2

\* Argument lists and outcomes of the functions handed to withErrorHandling.
WehArgs == {<<>>, <<JsStr("v1")>>}

WehOutcomes ==
    {Returned(JsObj([videoId |-> "v1"])), Returned(JsUndefined),
     ThrewError("Unauthenticated"), ThrewError("Rate limit exceeded"),
     ThrewValue(JsStr("boom")), ThrewValue(JsNull)}

\* Parameter names: "p" and "q" are set by callers, "x=" only occurs in
\* the current URL.
UpdateNames == {<<"p">>, <<"q">>}

ParamNames == UpdateNames \cup {<<"x", "=">>}

ParamValues == {<<>>, <<"1">>, <<"a", " ", "&", "b">>, <<"%", "2", "6">>}

UpdateValues ==
    {JsNull, JsUndefined} \cup {JsStr(v) : v \in ParamValues}

BasePaths == {<<"/">>, <<"/", "u">>}

SeqsUpTo(S, n) == UNION {[1..k -> S] : k \in 0..n}

\* Entries of an object literal: each name once.
UpdateRecords ==
    {u \in SeqsUpTo(UpdateNames \X UpdateValues, MaxUpdates) :
        \A i, j \in 1..Len(u) : i # j => u[i][1] # u[j][1]}

UtilsInit == utilCall = [op |-> "none"]

\* A caller applies a helper and, later, is done with its result.
CallWithErrorHandling ==
    /\ utilCall.op = "none"
    /\ \E fn \in [WehArgs -> WehOutcomes], args \in WehArgs :
          utilCall' = [op |-> "withErrorHandling", fn |-> fn, args |-> args,
                       result |-> withErrorHandling(fn[args])]
    /\ UNCHANGED <<queryVars, hookVars, restVars>>

CallGeneratePagination ==
    /\ utilCall.op = "none"
    /\ \E totalPages \in 0..MaxTotalPages,
          currentPage \in (-1)..(MaxTotalPages + 1) :
          utilCall' = [op |-> "generatePagination",
                       currentPage |-> currentPage,
                       totalPages |-> totalPages,
                       result |-> generatePagination(currentPage, totalPages)]
    /\ UNCHANGED <<queryVars, hookVars, restVars>>

CallUpdateURLParams ==
    /\ utilCall.op = "none"
    /\ \E currentParams \in SeqsUpTo(ParamNames \X ParamValues, MaxParams),
          updates \in UpdateRecords, basePath \in BasePaths :
          LET r == updateURLParams(currentParams, updates, basePath)
          IN  utilCall' = [op |-> "updateURLParams",
                           currentParams |-> currentParams,
                           updates |-> updates, basePath |-> basePath,
                           result |-> r.url,
                           currentParamsAfter |-> r.currentParams]
    /\ UNCHANGED <<queryVars, hookVars, restVars>>

\* config.matcher: the path is "/" followed by something that starts with
\* none of the excluded words; the "." of favicon.ico stands for any
\* character.
matcher(path) ==
    LET excluded ==
            {<<"a", "p", "i">>,
             <<"_", "n", "e", "x", "t", "/", "s", "t", "a", "t", "i", "c">>,
             <<"_", "n", "e", "x", "t", "/", "i", "m", "a", "g", "e">>,
             <<"f", "a", "v", "i", "c", "o", "n", ".", "i", "c", "o">>,
             <<"s", "i", "g", "n", "-", "i", "n">>,
             <<"a", "s", "s", "e", "t", "s">>}
        rest == Tail(path)
        StartsWith(word) ==
            /\ Len(rest) >= Len(word)
            /\ \A i \in 1..Len(word) : word[i] \in {".", rest[i]}
    IN  /\ Len(path) >= 1
        /\ path[1] = "/"
        /\ \A word \in excluded : ~StartsWith(word)

\* middleware: arcjetResult is what arcjetMiddleware resolved to, hasSession
\* what getSession would find.  The response, whose it is, and whether the
\* session was asked for.
middleware(arcjetResult, hasSession) ==
    IF arcjetResult # "undefined"
    THEN [response |-> arcjetResult, from |-> "arcjet", asked |-> FALSE]
    ELSE IF ~hasSession
    THEN [response |-> "redirect /sign-in", from |-> "middleware",
          asked |-> TRUE]
    ELSE [response |-> "next", from |-> "middleware", asked |-> TRUE]

\* A request arrives.  createMiddleware's handler resolves to nothing, to a
\* response that ends the request (403, 429), or to NextResponse.next().
CallMiddleware ==
    /\ utilCall.op = "none"
    /\ \E path \in {<<"/">>, <<"/", "u">>, <<"/", "a", "p", "i">>,
                     <<"/", "a", "p", "i", "/", "u">>, <<"/", "a", "p">>,
                     <<"/", "s", "i", "g", "n", "-", "i", "n">>,
                     <<"/", "f", "a", "v", "i", "c", "o", "n", "-", "i",
                       "c", "o">>,
                     <<"/", "u", "/", "a", "p", "i">>},
          arcjetResult \in {"undefined", "forbidden", "next"},
          hasSession \in BOOLEAN :
          utilCall' = [op |-> "middleware", path |-> path,
                       arcjetResult |-> arcjetResult,
                       hasSession |-> hasSession,
                       result |-> IF matcher(path)
                                  THEN middleware(arcjetResult, hasSession)
                                  ELSE [response |-> "next",
                                        from |-> "matcher",
                                        asked |-> FALSE]]
    /\ UNCHANGED <<queryVars, hookVars, restVars>>

\* Faulty variant of uploadFileToBunny: response.ok is not looked at.
uploadFileToBunny_ignoresStatus(responseOk) == Returned(JsUndefined)

\* uploadFileToBunny: the PUT was answered, OK or not.
uploadFileToBunny(responseOk) ==
    IF ~responseOk THEN ThrewError("Upload Failed")
    ELSE Returned(JsUndefined)

\* handleSubmit of the upload form: form says which fields are filled,
\* ok[i] whether the i-th thing awaited went well (a server action
\* returned its object and not a message, a PUT was answered OK).  The
\* requests made in order, the error shown, and whether router.push ran.
handleSubmit(form, ok) ==
    LET Made(n) ==
            [i \in 1..n |->
                [to |-> <<"getVideoUploadUrl", "uploadVideo",
                          "getThumbnailUploadUrl", "uploadThumbnail",
                          "saveVideoDetails">>[i],
                 ok |-> ok[i]]]
        Ends(n, error, pushed) ==
            [requests |-> Made(n), error |-> error, pushed |-> pushed,
             isSubmitting |-> FALSE]
    IN  IF ~form.video \/ ~form.thumbnail
        THEN Ends(0, "Please upload a video and thumbnail", FALSE)
        ELSE IF ~form.title \/ ~form.description
        THEN Ends(0, "Please fill in all fields", FALSE)
        ELSE IF ~ok[1] THEN Ends(1, "", FALSE)
        ELSE IF uploadFileToBunny(ok[2]).kind = "threw"
        THEN Ends(2, "", FALSE)
        ELSE IF ~ok[3] THEN Ends(3, "", FALSE)
        ELSE IF uploadFileToBunny(ok[4]).kind = "threw"
        THEN Ends(4, "", FALSE)
        ELSE Ends(5, "", TRUE)

\* The upload form is submitted.
CallHandleSubmit ==
    /\ utilCall.op = "none"
    /\ \E form \in [video : BOOLEAN, thumbnail : BOOLEAN, title : BOOLEAN,
                     description : BOOLEAN],
          ok \in [1..5 -> BOOLEAN] :
          utilCall' = [op |-> "handleSubmit", form |-> form, ok |-> ok,
                       result |-> handleSubmit(form, ok)]
    /\ UNCHANGED <<queryVars, hookVars, restVars>>

\* Most lines of a transcript.
MaxLines == 4

StartTimes == {"00:00:01", "00:00:02"}

LineTexts == {"a", "b"}

\* A line of a transcript as the loop of parseTranscript sees it after
\* trim(): one that matches the time pattern (start is its first group, the
\* start time to the second), one with other text, or an empty one.
TranscriptLines ==
    [kind : {"time"}, start : StartTimes]
        \cup [kind : {"text"}, text : LineTexts]
        \cup {[kind |-> "blank"]}

\* A transcript: it starts with WEBVTT or not, and its lines after that.
Transcripts ==
    [webvtt : BOOLEAN, lines : SeqsUpTo(TranscriptLines, MaxLines)]

\* transcript.replace(/^WEBVTT\s*/, "").split("\n"): the word is removed
\* with the white space after it, line ends and empty lines included.
RECURSIVE replaceWebvtt(_)
replaceWebvtt(lines) ==
    IF lines # <<>> /\ Head(lines).kind = "blank"
    THEN replaceWebvtt(Tail(lines))
    ELSE lines

\* One round of the loop of parseTranscript; text is kept as the lines
\* that join(" ") puts together, in their order.
parseLine(st, line) ==
    LET timeMatch == line.kind = "time"
        pushed == timeMatch /\ Len(st.tempText) > 0 /\ st.startTime # "null"
        result1 == IF pushed
                   THEN Append(st.result, [time |-> st.startTime,
                                           text |-> st.tempText])
                   ELSE st.result
        tempText1 == IF pushed THEN <<>>
                     ELSE IF line.kind = "text"
                     THEN Append(st.tempText, line.text)
                     ELSE st.tempText
        startTime1 == IF timeMatch THEN line.start ELSE st.startTime
        full == Len(tempText1) >= 3 /\ startTime1 # "null"
    IN  [result |-> IF full
                    THEN Append(result1, [time |-> startTime1,
                                          text |-> tempText1])
                    ELSE result1,
         tempText |-> IF full THEN <<>> ELSE tempText1,
         startTime |-> IF full THEN "null" ELSE startTime1]

RECURSIVE parseLines(_, _)
parseLines(st, lines) ==
    IF lines = <<>> THEN st
    ELSE parseLines(parseLine(st, Head(lines)), Tail(lines))

parseTranscript(transcript) ==
    LET lines == IF transcript.webvtt THEN replaceWebvtt(transcript.lines)
                 ELSE transcript.lines
        st == parseLines([result |-> <<>>, tempText |-> <<>>,
                          startTime |-> "null"], lines)
    IN  IF Len(st.tempText) > 0 /\ st.startTime # "null"
        THEN Append(st.result, [time |-> st.startTime, text |-> st.tempText])
        ELSE st.result

\* VideoInfo parses the transcript of the video it shows.
CallParseTranscript ==
    /\ utilCall.op = "none"
    /\ \E transcript \in Transcripts :
          utilCall' = [op |-> "parseTranscript", transcript |-> transcript,
                       result |-> parseTranscript(transcript)]
    /\ UNCHANGED <<queryVars, hookVars, restVars>>

UtilsDone ==
    /\ utilCall.op # "none"
    /\ utilCall' = [op |-> "none"]
    /\ UNCHANGED <<queryVars, hookVars, restVars>>

UtilsNext ==
    \/ CallWithErrorHandling
    \/ CallGeneratePagination
    \/ CallUpdateURLParams
    \/ CallMiddleware
    \/ CallHandleSubmit
    \/ CallParseTranscript
    \/ UtilsDone

(***************************************************************************)
(* The videos table and the read-only server actions.                      *)
(***************************************************************************)
\* Most rows of the videos table.
MaxVideos == 2

UserIds == {"u1", "u2"}

\* session?.user.id without a session.
NoSession == "undefined"

Titles == {<<"A", "-", "b">>, <<"c">>}

Searches == {<<>>, <<"a", " ", "B">>, <<" ", "c">>}

\* "" stands for a sortFilter that is undefined.
SortFilters == {"", "Most Viewed", "Least Viewed", "Oldest First", "Most Recent"}

PageSizes == {1, 2}

MaxPage == MaxVideos + 1

ViewCounts == {0, 1}

\* A row as inserted: ids and creation times follow the insertion order.
VideoRow(i, r) ==
    [id |-> i, videoId |-> i, userId |-> r[1], visibility |-> r[2],
     title |-> r[3], views |-> r[4], createdAt |-> i, updatedAt |-> i]

Databases ==
    {[i \in 1..Len(d) |-> VideoRow(i, d[i])] :
        d \in SeqsUpTo(UserIds \X {"public", "private"} \X Titles \X ViewCounts,
                       MaxVideos)}

\* String.prototype.trim on the characters of the model.
RECURSIVE TrimStart(_)
TrimStart(s) ==
    IF s # <<>> /\ Head(s) = " " THEN TrimStart(Tail(s)) ELSE s

RECURSIVE TrimEnd(_)
TrimEnd(s) ==
    IF s # <<>> /\ s[Len(s)] = " " THEN TrimEnd(SubSeq(s, 1, Len(s) - 1)) ELSE s

Trim(s) == TrimEnd(TrimStart(s))

\* LOWER / toLowerCase on the letters of the model.
LowerChar(c) ==
    CASE c = "A" -> "a" [] c = "B" -> "b" [] c = "C" -> "c" [] OTHER -> c

Lower(s) == [i \in 1..Len(s) |-> LowerChar(s[i])]

\* The three nested REPLACEs of doesTitleMatch and its /[-. ]/g.
StripSeparators(s) == SelectSeq(s, LAMBDA c : c \notin {"-", ".", " "})

\* LIKE '%pat%' for a pattern without wildcards: pat occurs in s.
Contains(s, pat) ==
    \E i \in 0..(Len(s) - Len(pat)) : SubSeq(s, i + 1, i + Len(pat)) = pat

\* src/lib/utils.ts doesTitleMatch
doesTitleMatch(row, searchQuery) ==
    Contains(Lower(StripSeparators(Lower(row.title))),
             Lower(Lower(StripSeparators(searchQuery))))

\* ilike(videos.title, `%${searchQuery}%`) of getAllVideosByUser
ilikeTitle(row, searchQuery) == Contains(Lower(row.title), Lower(searchQuery))

\* src/lib/utils.ts getOrderByClause
getOrderByClause(filter) ==
    CASE filter = "Most Viewed" -> [column |-> "views", dir |-> "DESC"]
      [] filter = "Least Viewed" -> [column |-> "views", dir |-> "ASC"]
      [] filter = "Oldest First" -> [column |-> "createdAt", dir |-> "ASC"]
      [] OTHER -> [column |-> "createdAt", dir |-> "DESC"]

\* The orderBy argument of both queries.
OrderByOf(sortFilter) ==
    IF sortFilter # "" THEN getOrderByClause(sortFilter)
    ELSE [column |-> "createdAt", dir |-> "DESC"]

SortKey(row, clause) ==
    IF clause.column = "views" THEN row.views ELSE row.createdAt

\* ORDER BY: every arrangement of the rows that respects the clause.  Rows
\* with equal keys come in an order the database is free to choose, anew
\* for every query.
Orderings(rows, clause) ==
    {o \in [1..Cardinality(rows) -> rows] :
        /\ \A i, j \in 1..Cardinality(rows) : i # j => o[i] # o[j]
        /\ \A i, j \in 1..Cardinality(rows) :
              i < j => IF clause.dir = "DESC"
                       THEN SortKey(o[i], clause) >= SortKey(o[j], clause)
                       ELSE SortKey(o[i], clause) <= SortKey(o[j], clause)}

\* LIMIT n OFFSET k
LimitOffset(o, limit, offset) ==
    SubSeq(o, offset + 1, IF offset + limit < Len(o) THEN offset + limit
                          ELSE Len(o))

\* Math.ceil(a / b) for a >= 0, b >= 1
Ceil(a, b) == (a + b - 1) \div b

\* leftJoin(user, eq(videos.userId, user.id))
WithUser(row) ==
    [video |-> row,
     user |-> IF row.userId \in users THEN row.userId ELSE "null"]

\* Faulty variant of canSeeTheVideos: the visibility test is dropped.
canSeeTheVideos_everything(row, currentUserId) == TRUE

\* or(eq(videos.visibility, "public"), eq(videos.userId, currentUserId!));
\* without a session the right side compares with NULL and is never true.
canSeeTheVideos(row, currentUserId) ==
    \/ row.visibility = "public"
    \/ currentUserId # NoSession /\ row.userId = currentUserId

\* whereCondition of getAllVideos
whereCondition(row, currentUserId, searchQuery) ==
    IF Trim(searchQuery) # <<>>
    THEN canSeeTheVideos(row, currentUserId) /\ doesTitleMatch(row, searchQuery)
    ELSE canSeeTheVideos(row, currentUserId)

TableRows == {videos[i] : i \in 1..Len(videos)}

\* The body of getAllVideos: every outcome it can have on the current
\* table.  Without a session the driver is handed an undefined parameter,
\* which it binds as NULL or refuses.
getAllVideosBody(searchQuery, sortFilter, pageNumber, pageSize) ==
    LET currentUserId == session
        rows == {r \in TableRows : whereCondition(r, currentUserId, searchQuery)}
        totalVideos == Cardinality(rows)
        totalPages == Ceil(totalVideos, pageSize)
    IN  {Returned(JsObj(
            [videos |-> [i \in 1..Len(page) |-> WithUser(page[i])],
             pagination |-> [currentPage |-> pageNumber,
                             totalPages |-> totalPages,
                             totalVideos |-> totalVideos,
                             pageSize |-> pageSize]])) :
            page \in {LimitOffset(o, pageSize, (pageNumber - 1) * pageSize) :
                         o \in Orderings(rows, OrderByOf(sortFilter))}}
        \cup (IF currentUserId = NoSession
              THEN {ThrewError("UNDEFINED_VALUE")} ELSE {})

\* conditions of getAllVideosByUser
userVideoConditions(row, userIdParameter, isOwner, searchQuery) ==
    /\ row.userId = userIdParameter
    /\ ~isOwner => row.visibility = "public"
    /\ Trim(searchQuery) # <<>> => ilikeTitle(row, searchQuery)

\* The body of getAllVideosByUser: every outcome it can have.
getAllVideosByUserBody(userIdParameter, searchQuery, sortFilter) ==
    LET currentUserId == session
        isOwner == userIdParameter = currentUserId
        rows == {r \in TableRows :
                    userVideoConditions(r, userIdParameter, isOwner, searchQuery)}
    IN  IF userIdParameter \notin users THEN {ThrewError("User not found")}
        ELSE {Returned(JsObj(
                 [user |-> userIdParameter,
                  videos |-> [i \in 1..Len(o) |-> WithUser(o[i])],
                  count |-> Len(o)])) :
                 o \in Orderings(rows, OrderByOf(sortFilter))}

(***************************************************************************)
(* SpecQuery: a visitor queries a database drawn from a bounded set.       *)
(***************************************************************************)
NotFetched == [got |-> FALSE]

NoBrowse ==
    [search |-> <<>>, sort |-> "", pageSize |-> 1,
     pages |-> [p \in 1..MaxPage |-> NotFetched]]

QueryInit ==
    /\ session \in {NoSession, "u1"}
    /\ users = UserIds
    /\ videos \in Databases
    /\ qres = [fn |-> "none"]
    /\ browse = NoBrowse

\* What the visitor keeps of one page of getAllVideos.
Fetched(value) ==
    [got |-> TRUE,
     ids |-> [i \in 1..Len(value.videos) |-> value.videos[i].video.id],
     totalPages |-> value.pagination.totalPages,
     totalVideos |-> value.pagination.totalVideos]

\* One call of getAllVideos as the visitor sees it: the result, and the
\* page kept beside the pages already fetched for the same search, sort
\* and page size.
GetAllVideosCall(searchQuery, sortFilter, pageNumber, pageSize, old) ==
    \E outcome \in getAllVideosBody(searchQuery, sortFilter,
                                    pageNumber, pageSize) :
       LET result == withErrorHandling(outcome)
       IN  /\ qres' = [fn |-> "getAllVideos", result |-> result]
           /\ browse' =
                [search |-> searchQuery, sort |-> sortFilter,
                 pageSize |-> pageSize,
                 pages |-> IF result.value.t = "object"
                           THEN [old EXCEPT ![pageNumber] =
                                     Fetched(result.value.v)]
                           ELSE old]

\* The home page is opened with a query, a filter and a page from the URL.
GetAllVideos ==
    /\ qres.fn = "none"
    /\ \E searchQuery \in Searches, sortFilter \in SortFilters,
          pageNumber \in 1..MaxPage, pageSize \in PageSizes :
          GetAllVideosCall(searchQuery, sortFilter, pageNumber, pageSize,
                           NoBrowse.pages)
    /\ UNCHANGED <<session, users, videos, utilVars, restVars, hookVars>>

\* A pagination link is followed: the query and the filter are kept, the
\* page is another one.
GetAllVideosPage ==
    /\ qres.fn = "getAllVideos"
    /\ \E pageNumber \in 1..MaxPage :
          /\ ~browse.pages[pageNumber].got
          /\ GetAllVideosCall(browse.search, browse.sort, pageNumber,
                              browse.pageSize, browse.pages)
    /\ UNCHANGED <<session, users, videos, utilVars, restVars, hookVars>>

\* The profile page calls getAllVideosByUser.
GetAllVideosByUser ==
    /\ qres.fn = "none"
    /\ \E userIdParameter \in UserIds \cup {"u9"}, searchQuery \in Searches,
          sortFilter \in SortFilters :
          \E outcome \in getAllVideosByUserBody(userIdParameter, searchQuery,
                                                sortFilter) :
             qres' = [fn |-> "getAllVideosByUser",
                      result |-> withErrorHandling(outcome)]
    /\ UNCHANGED <<browse, session, users, videos, utilVars, restVars, hookVars>>

\* The body of getVideoById: the first row of the join whose id is the
\* parameter, undefined when there is none; the query may fail.
getVideoByIdBody(videoId) ==
    LET rows == {r \in TableRows : r.id = videoId}
    IN  {Returned(IF rows = {} THEN JsUndefined
                  ELSE JsObj(WithUser(CHOOSE r \in rows : TRUE))),
         ThrewError("db")}

\* Page of /video/[videoId], given what getVideoById resolved to:
\* { user, video } is taken from it, which throws on undefined and finds
\* neither in a string; redirect() throws too.
VideoPage(record) ==
    IF record.t \in {"undefined", "null"}
    THEN [response |-> "TypeError", transcript |-> FALSE, player |-> FALSE]
    ELSE IF record.t # "object"
    THEN [response |-> "redirect /404", transcript |-> FALSE,
          player |-> FALSE]
    ELSE [response |-> "rendered", transcript |-> TRUE, player |-> TRUE,
          playerVideoId |-> record.v.video.videoId]

\* The video page is opened on a route's videoId.
OpenVideoPage ==
    /\ qres.fn = "none"
    /\ \E videoId \in 1..(MaxVideos + 1) :
          \E outcome \in getVideoByIdBody(videoId) :
             LET result == withErrorHandling(outcome)
             IN  qres' = [fn |-> "videoPage", videoId |-> videoId,
                          result |-> result,
                          page |-> VideoPage(result.value)]
    /\ UNCHANGED <<browse, session, users, videos, utilVars, restVars, hookVars>>

\* The visitor leaves the page.
LeavePage ==
    /\ qres.fn # "none"
    /\ qres' = [fn |-> "none"]
    /\ browse' = NoBrowse
    /\ UNCHANGED <<session, users, videos, utilVars, restVars, hookVars>>

QueryNext ==
    \/ GetAllVideos
    \/ GetAllVideosPage
    \/ GetAllVideosByUser
    \/ OpenVideoPage
    \/ LeavePage

(***************************************************************************)
(* The server actions that write: incrementVideoViews, saveVideoDetails,   *)
(* updateVideoVisibility and deleteVideo.  An action that awaits services  *)
(* outside (Arcjet, Bunny, the database) is given the outcome of each; the *)
(* requests it made are listed in the order it made them.                  *)
(***************************************************************************)
\* Most incrementVideoViews calls in one behaviour.
MaxIncrements == 3

\* Most rows of the table the writing actions start from.
MaxRows == 2

\* The last value of the server's clock.
MaxSrvNow == 2

\* Most calls of the writing actions in one behaviour.
MaxActions == 3

\* fixedWindow({ max: 2 })
RateLimitMax == 2

\* Bunny video guids, the videoId column.
VideoIds == {"v1", "v2"}

\* A table of u1's private videos, whose rows may share a videoId; all
\* rows are older than the server's clock.
ActionDatabases ==
    {[i \in 1..Len(d) |->
         [VideoRow(i, <<"u1", "private", <<"c">>, 0>>)
             EXCEPT !.videoId = d[i], !.createdAt = 0, !.updatedAt = 0]] :
        d \in SeqsUpTo(VideoIds, MaxRows)}

\* rateLimit.protect(req, { fingerprint }) under the fixed window rule:
\* the decision, and the window's counts after the request.
protect(lim, fingerprint) ==
    IF lim[fingerprint] < RateLimitMax
    THEN [denied |-> FALSE,
          limiter |-> [lim EXCEPT ![fingerprint] = @ + 1]]
    ELSE [denied |-> TRUE, limiter |-> lim]

\* The uuid the database gives a new row.
NextId(table) ==
    1 + Cardinality({table[i].id : i \in 1..Len(table)}
                    \cup {videos0[i].id : i \in 1..Len(videos0)})

\* A request an action awaited, and whether it went well.
Req(to, ok) == [to |-> to, ok |-> ok]

\* What an action leaves: its outcome, the table, the limiter, and the
\* requests it made, in order.
Leaves(outcome, table, lim, requests) ==
    [outcome |-> outcome, videos |-> table, limiter |-> lim,
     requests |-> requests]

\* Faulty variant of incrementViewsStatement: the UPDATE has no WHERE.
incrementViewsStatement_noWhere(table, videoId, tnow) ==
    [i \in 1..Len(table) |->
        [table[i] EXCEPT !.views = @ + 1, !.updatedAt = tnow]]

\* UPDATE videos SET views = views + 1, updatedAt = now WHERE videoId = ...
incrementViewsStatement(table, videoId, tnow) ==
    [i \in 1..Len(table) |->
        IF table[i].videoId = videoId
        THEN [table[i] EXCEPT !.views = @ + 1, !.updatedAt = tnow]
        ELSE table[i]]

\* The body of incrementVideoViews; dbOk: the statement did not fail.
incrementVideoViewsBody(table, videoId, tnow, dbOk) ==
    IF dbOk
    THEN [outcome |-> Returned(JsObj([empty |-> TRUE])),
          videos |-> incrementViewsStatement(table, videoId, tnow)]
    ELSE [outcome |-> ThrewError("db"), videos |-> table]

\* Faulty variant of insertValues: ...videoDetails is spread last.
insertValues_spreadLast(table, videoDetails, userId, tnow) ==
    [id |-> NextId(table), videoId |-> videoDetails.videoId,
     userId |-> IF videoDetails.userId = "none"
                THEN userId ELSE videoDetails.userId,
     visibility |-> videoDetails.visibility,
     title |-> videoDetails.title, views |-> 0,
     createdAt |-> tnow, updatedAt |-> tnow]

\* The values of the inserted row: ...videoDetails first (it may bring a
\* userId), then videoUrl, userId, createdAt and updatedAt, which override
\* what the spread brought.
insertValues(table, videoDetails, userId, tnow) ==
    [id |-> NextId(table), videoId |-> videoDetails.videoId,
     userId |-> userId, visibility |-> videoDetails.visibility,
     title |-> videoDetails.title, views |-> 0,
     createdAt |-> tnow, updatedAt |-> tnow]

\* The body of saveVideoDetails.
saveVideoDetailsBody(sess, lim, table, tnow, videoDetails, bunnyOk, dbOk) ==
    LET decision == protect(lim, sess)
        r1 == <<Req("getSession", sess # NoSession)>>
        r2 == Append(r1, Req("arcjet", ~decision.denied))
        r3 == Append(r2, Req("bunnyUpdate", bunnyOk))
        r4 == Append(r3, Req("insert", dbOk))
    IN  IF sess = NoSession
        THEN Leaves(ThrewError("Unauthenticated"), table, lim, r1)
        ELSE IF decision.denied
        THEN Leaves(ThrewError("Rate limit exceeded"), table,
                    decision.limiter, r2)
        ELSE IF ~bunnyOk
        THEN Leaves(ThrewError("API error"), table, decision.limiter, r3)
        ELSE IF ~dbOk
        THEN Leaves(ThrewError("db"), table, decision.limiter, r4)
        ELSE Leaves(Returned(JsObj([videoId |-> videoDetails.videoId])),
                    Append(table, insertValues(table, videoDetails, sess, tnow)),
                    decision.limiter, r4)

\* UPDATE videos SET visibility = ..., updatedAt = now WHERE videoId = ...
updateVisibilityStatement(table, videoId, visibility, tnow) ==
    [i \in 1..Len(table) |->
        IF table[i].videoId = videoId
        THEN [table[i] EXCEPT !.visibility = visibility, !.updatedAt = tnow]
        ELSE table[i]]

\* Faulty variant of updateVideoVisibilityBody: the limit is validated
\* after the UPDATE.
updateVideoVisibilityBody_limitAfter(lim, table, tnow, videoId, visibility, dbOk) ==
    LET decision == protect(lim, videoId)
        r1 == <<Req("arcjet", ~decision.denied)>>
        updated == updateVisibilityStatement(table, videoId, visibility, tnow)
    IN  IF ~dbOk
        THEN Leaves(ThrewError("db"), table, decision.limiter,
                    Append(r1, Req("update", dbOk)))
        ELSE IF decision.denied
        THEN Leaves(ThrewError("Rate limit exceeded"), updated,
                    decision.limiter, r1)
        ELSE Leaves(Returned(JsObj([empty |-> TRUE])), updated,
                    decision.limiter, Append(r1, Req("update", dbOk)))

\* The body of updateVideoVisibility.
updateVideoVisibilityBody(lim, table, tnow, videoId, visibility, dbOk) ==
    LET decision == protect(lim, videoId)
        r1 == <<Req("arcjet", ~decision.denied)>>
        r2 == Append(r1, Req("update", dbOk))
    IN  IF decision.denied
        THEN Leaves(ThrewError("Rate limit exceeded"), table,
                    decision.limiter, r1)
        ELSE IF ~dbOk
        THEN Leaves(ThrewError("db"), table, decision.limiter, r2)
        ELSE Leaves(Returned(JsObj([empty |-> TRUE])),
                    updateVisibilityStatement(table, videoId, visibility, tnow),
                    decision.limiter, r2)

\* DELETE FROM videos WHERE videoId = ...
deleteStatement(table, videoId) ==
    SelectSeq(table, LAMBDA row : row.videoId # videoId)

\* Faulty variant of deleteVideoBody: the storage response is not looked
\* at.
deleteVideoBody_ignoresStorage(lim, table, videoId, streamOk, storageOk, dbOk) ==
    LET r1 == <<Req("deleteStream", streamOk)>>
        r2 == Append(r1, Req("deleteThumbnail", storageOk))
        r3 == Append(r2, Req("deleteRow", dbOk))
    IN  IF ~streamOk
        THEN Leaves(ThrewError("API error"), table, lim, r1)
        ELSE IF ~dbOk
        THEN Leaves(ThrewError("db"), table, lim, r3)
        ELSE Leaves(Returned(JsObj([empty |-> TRUE])),
                    deleteStatement(table, videoId), lim, r3)

\* The body of deleteVideo; apiFetch throws when the response is not ok.
deleteVideoBody(lim, table, videoId, streamOk, storageOk, dbOk) ==
    LET r1 == <<Req("deleteStream", streamOk)>>
        r2 == Append(r1, Req("deleteThumbnail", storageOk))
        r3 == Append(r2, Req("deleteRow", dbOk))
    IN  IF ~streamOk
        THEN Leaves(ThrewError("API error"), table, lim, r1)
        ELSE IF ~storageOk
        THEN Leaves(ThrewError("API error"), table, lim, r2)
        ELSE IF ~dbOk
        THEN Leaves(ThrewError("db"), table, lim, r3)
        ELSE Leaves(Returned(JsObj([empty |-> TRUE])),
                    deleteStatement(table, videoId), lim, r3)

\* Nothing was called; the table is not looked at.
ActionsIdle ==
    /\ limiter = [f \in UserIds \cup VideoIds |-> 0]
    /\ srvNow = 1
    /\ act = [op |-> "none", n |-> 0]
    /\ incCalls = [c \in 1..MaxIncrements |-> [pc |-> "notCalled"]]
    /\ videos0 = <<>>

ActionsInit ==
    /\ session \in {NoSession, "u1"}
    /\ users = UserIds
    /\ videos \in ActionDatabases
    /\ qres = [fn |-> "none"]
    /\ browse = NoBrowse
    /\ limiter = [f \in UserIds \cup VideoIds |-> 0]
    /\ srvNow = 1
    /\ act = [op |-> "none", n |-> 0]
    /\ incCalls = [c \in 1..MaxIncrements |-> [pc |-> "notCalled"]]
    /\ videos0 = videos

\* A viewer's player calls incrementVideoViews.
IncrementCalled ==
    /\ \E c \in 1..MaxIncrements, videoId \in VideoIds :
          /\ incCalls[c].pc = "notCalled"
          /\ \A b \in 1..(c - 1) : incCalls[b].pc # "notCalled"
          /\ incCalls' = [incCalls EXCEPT
                             ![c] = [pc |-> "called", videoId |-> videoId]]
    /\ UNCHANGED <<limiter, srvNow, act, videos0, queryVars, utilVars,
                   hookVars, vp>>

\* The UPDATE of a call runs, or fails, and the call returns.
IncrementRuns ==
    /\ \E c \in 1..MaxIncrements, dbOk \in BOOLEAN :
          /\ incCalls[c].pc = "called"
          /\ LET left == incrementVideoViewsBody(videos, incCalls[c].videoId,
                                                 srvNow, dbOk)
             IN  /\ videos' = left.videos
                 /\ incCalls' = [incCalls EXCEPT
                        ![c] = [pc |-> "returned",
                                videoId |-> incCalls[c].videoId,
                                result |-> withErrorHandling(left.outcome)]]
    /\ UNCHANGED <<limiter, srvNow, act, videos0, session, users, qres,
                   browse, utilVars, hookVars, vp>>

\* The action ran: what it left, and what its caller got.
ActionDone(op, args, left) ==
    /\ act.n < MaxActions
    /\ videos' = left.videos
    /\ limiter' = left.limiter
    /\ act' = [op |-> op, n |-> act.n + 1, args |-> args,
               requests |-> left.requests,
               result |-> withErrorHandling(left.outcome)]

SaveVideoDetails ==
    /\ Len(videos) < MaxRows
    /\ \E videoDetails \in [videoId : VideoIds,
                             visibility : {"public", "private"},
                             title : {<<"c">>}, userId : {"none", "u2"}],
          bunnyOk, dbOk \in BOOLEAN :
          ActionDone("saveVideoDetails", <<videoDetails>>,
                     saveVideoDetailsBody(session, limiter, videos, srvNow,
                                          videoDetails, bunnyOk, dbOk))
    /\ UNCHANGED <<srvNow, incCalls, videos0, session, users, qres, browse,
                   utilVars, hookVars, vp>>

UpdateVideoVisibility ==
    /\ \E videoId \in VideoIds, visibility \in {"public", "private"},
          dbOk \in BOOLEAN :
          ActionDone("updateVideoVisibility", <<videoId, visibility>>,
                     updateVideoVisibilityBody(limiter, videos, srvNow,
                                               videoId, visibility, dbOk))
    /\ UNCHANGED <<srvNow, incCalls, videos0, session, users, qres, browse,
                   utilVars, hookVars, vp>>

DeleteVideo ==
    /\ \E videoId \in VideoIds, streamOk, storageOk, dbOk \in BOOLEAN :
          ActionDone("deleteVideo", <<videoId>>,
                     deleteVideoBody(limiter, videos, videoId,
                                     streamOk, storageOk, dbOk))
    /\ UNCHANGED <<srvNow, incCalls, videos0, session, users, qres, browse,
                   utilVars, hookVars, vp>>

\* handleVisibilityChange of VideoDetailHeader, called with an option other
\* than visibilityState: settled is what the promise of updateVideoVisibility
\* settled to.  The header's visibilityState and isUpdating after it.
handleVisibilityChange(visibilityState, option, settled) ==
    IF settled.kind = "resolved"
    THEN [visibilityState |-> option, isUpdating |-> FALSE]
    ELSE [visibilityState |-> visibilityState, isUpdating |-> FALSE]

\* The page of a video is open, its header showing the stored visibility,
\* and the other option is picked in the dropdown.
HandleVisibilityChange ==
    /\ act.n < MaxActions
    /\ \E i \in 1..Len(videos), option \in {"public", "private"},
          dbOk \in BOOLEAN :
          LET left == updateVideoVisibilityBody(limiter, videos, srvNow,
                                                videos[i].videoId, option,
                                                dbOk)
              settled == withErrorHandling(left.outcome)
          IN  /\ option # videos[i].visibility
              /\ videos' = left.videos
              /\ limiter' = left.limiter
              /\ act' = [op |-> "handleVisibilityChange", n |-> act.n + 1,
                         args |-> <<videos[i].videoId, option>>,
                         requests |-> left.requests, result |-> settled,
                         row |-> i,
                         header |-> handleVisibilityChange(
                                        videos[i].visibility, option, settled)]
    /\ UNCHANGED <<srvNow, incCalls, videos0, session, users, qres, browse,
                   utilVars, hookVars, vp>>

\* The minute of the fixed window ends.
WindowEnds ==
    /\ \E f \in DOMAIN limiter : limiter[f] # 0
    /\ limiter' = [f \in DOMAIN limiter |-> 0]
    /\ UNCHANGED <<srvNow, act, incCalls, videos0, queryVars, utilVars,
                   hookVars, vp>>

SrvTick ==
    /\ srvNow < MaxSrvNow
    /\ srvNow' = srvNow + 1
    /\ UNCHANGED <<limiter, act, incCalls, videos0, queryVars, utilVars,
                   hookVars, vp>>

ViewsNext ==
    \/ IncrementCalled
    \/ IncrementRuns
    \/ SrvTick

ActionsNext ==
    \/ SaveVideoDetails
    \/ UpdateVideoVisibility
    \/ DeleteVideo
    \/ HandleVisibilityChange
    \/ WindowEnds

(***************************************************************************)
(* useScreenRecording and the browser objects it drives.                   *)
(*                                                                         *)
(* Every startRecording call has a number; the streams it acquires, the    *)
(* AudioContext and the MediaRecorder it creates carry that number.  A     *)
(* handler is an operator from the hook and browser state h to the state   *)
(* it leaves; a state update that changes recordedVideoUrl is followed, in *)
(* the same step, by the render and the cleanup of the effect that depends *)
(* on it.                                                                  *)
(***************************************************************************)
\* Most startRecording calls in one behaviour.
MaxRecordings == 2

\* Most timeslice dataavailable events one recorder fires.
MaxChunks == 1

\* The last value of the clock.
MaxNow == 2

\* A ref whose current is null.
NullRef == 0

\* recordedVideoUrl "", which is no object URL.
NoUrl == 0

Attempts == 1..MaxRecordings

\* The tracks of call n: the display stream's video and audio tracks, the
\* microphone track, and the track of the audio mixer's destination.
TrackKinds == {"video", "displayAudio", "mic", "mixed"}

TrackIds == Attempts \X TrackKinds

NullBlob == [null |-> TRUE, parts |-> <<>>]

InitialState ==
    [isRecording |-> FALSE, recordedBlob |-> NullBlob,
     recordedVideoUrl |-> NoUrl, recordingDuration |-> 0]

\* The hook's state and refs and the browser objects, as one record.
Hook ==
    [state |-> state, mounted |-> mounted,
     mediaRecorderRef |-> mediaRecorderRef, streamRef |-> streamRef,
     chunksRef |-> chunksRef, audioContextRef |-> audioContextRef,
     startTimeRef |-> startTimeRef, recState |-> recState, events |-> events,
     trackState |-> trackState, ctxClosed |-> ctxClosed, urlBlob |-> urlBlob,
     revoked |-> revoked, now |-> now]

\* The next state takes the record's values.
Becomes(h) ==
    /\ state' = h.state
    /\ mounted' = h.mounted
    /\ mediaRecorderRef' = h.mediaRecorderRef
    /\ streamRef' = h.streamRef
    /\ chunksRef' = h.chunksRef
    /\ audioContextRef' = h.audioContextRef
    /\ startTimeRef' = h.startTimeRef
    /\ recState' = h.recState
    /\ events' = h.events
    /\ trackState' = h.trackState
    /\ ctxClosed' = h.ctxClosed
    /\ urlBlob' = h.urlBlob
    /\ revoked' = h.revoked
    /\ now' = h.now

\* setState: an update of an unmounted component is dropped.
SetState(h, s) == IF h.mounted THEN [h EXCEPT !.state = s] ELSE h

\* combinedStream.getTracks(): the display video track and the mixer's.
CombinedTracks(n) == {<<n, "video">>, <<n, "mixed">>}

\* The tracks of combinedStream._originalStreams.
OriginalTracks(n) == {<<n, "video">>, <<n, "displayAudio">>, <<n, "mic">>}

\* track.stop() on each of the tracks.
StopTracks(ts, tracks) ==
    [t \in DOMAIN ts |->
        IF t \in tracks /\ ts[t] = "live" THEN "ended" ELSE ts[t]]

\* MediaRecorder.stop(): the recorder is inactive at once; one task fires
\* dataavailable with what was gathered and then stop.
RecorderStop(h, r) ==
    [h EXCEPT !.recState[r] = "inactive",
              !.events = @ \o <<[rec |-> r, type |-> "data"],
                                [rec |-> r, type |-> "stop"]>>]

\* Faulty variant of cleanupRecording: stop() whatever the recorder's state.
cleanupRecording_stopsInactive(h, recorder, stream, originalStreams) ==
    LET h1 == IF recorder # NullRef
              THEN RecorderStop(h, recorder) ELSE h
    IN  [h1 EXCEPT !.trackState =
            StopTracks(@, (IF stream = NullRef THEN {}
                           ELSE CombinedTracks(stream))
                          \cup originalStreams)]

\* src/lib/utils.ts cleanupRecording
cleanupRecording(h, recorder, stream, originalStreams) ==
    LET h1 == IF recorder # NullRef /\ h.recState[recorder] # "inactive"
              THEN RecorderStop(h, recorder) ELSE h
    IN  [h1 EXCEPT !.trackState =
            StopTracks(@, (IF stream = NullRef THEN {}
                           ELSE CombinedTracks(stream))
                          \cup originalStreams)]

stopRecording(h) ==
    LET h1 == cleanupRecording(h, h.mediaRecorderRef, h.streamRef,
                               IF h.streamRef = NullRef THEN {}
                               ELSE OriginalTracks(h.streamRef))
        h2 == [h1 EXCEPT !.streamRef = NullRef]
    IN  SetState(h2, [h2.state EXCEPT !.isRecording = FALSE])

\* URL.revokeObjectURL(url), guarded by `if (url)`.
RevokeIfSet(h, url) ==
    IF url # NoUrl THEN [h EXCEPT !.revoked = @ \cup {url}] ELSE h

\* Faulty variant of effectCleanup: the URL of the closing render is not revoked.
effectCleanup_noRevoke(h, url) ==
    LET h1 == stopRecording(h)
    IN  [h1 EXCEPT !.ctxClosed = IF h1.audioContextRef # NullRef
                                 THEN @ \cup {h1.audioContextRef} ELSE @,
                   !.audioContextRef = NullRef]

\* The cleanup of the hook's effect; url is the recordedVideoUrl of the
\* render that set the effect up.
effectCleanup(h, url) ==
    LET h1 == stopRecording(h)
        h2 == RevokeIfSet(h1, url)
    IN  [h2 EXCEPT !.ctxClosed = IF h2.audioContextRef # NullRef
                                 THEN @ \cup {h2.audioContextRef} ELSE @,
                   !.audioContextRef = NullRef]

\* The render after a handler: the effect depends on recordedVideoUrl, so
\* its cleanup runs when that changed, with the URL of the render before.
Commit(old, new) ==
    IF new.mounted /\ new.state.recordedVideoUrl # old.state.recordedVideoUrl
    THEN effectCleanup(new, old.state.recordedVideoUrl)
    ELSE new

\* src/lib/utils.ts calculateRecordingDuration, in seconds
calculateRecordingDuration(startTime, dateNow) ==
    IF startTime # NullRef THEN dateNow - startTime ELSE 0

\* src/lib/utils.ts createRecordingBlob: the blob, and h with the object
\* URL created for it (the URLs are numbered as they are created).
createRecordingBlob(h, chunks) ==
    LET blob == [null |-> FALSE, parts |-> chunks]
    IN  [blob |-> blob, url |-> Len(h.urlBlob) + 1,
         h |-> [h EXCEPT !.urlBlob = Append(@, blob)]]

handleRecordingStop(h) ==
    LET made == createRecordingBlob(h, h.chunksRef)
        duration == calculateRecordingDuration(h.startTimeRef, h.now)
    IN  SetState(made.h, [made.h.state EXCEPT
                              !.recordedBlob = made.blob,
                              !.recordedVideoUrl = made.url,
                              !.recordingDuration = duration,
                              !.isRecording = FALSE])

\* resetRecording, called from the latest render.
resetRecording(h) ==
    LET h1 == stopRecording(h)
        h2 == RevokeIfSet(h1, h.state.recordedVideoUrl)
        h3 == SetState(h2, InitialState)
    IN  [h3 EXCEPT !.startTimeRef = NullRef]

\* The steps of startRecording after its await that can throw.
FailSteps == {"none", "audioContext", "mixer", "setup"}

\* The try/catch of startRecording: what the call resolves to when the
\* named step threw ("none": no step did).
startRecordingReturns(threw) == IF threw = "none" THEN "true" ELSE "false"

\* startRecording from the return of getMediaStreams to its own return,
\* for call n; failAt names the step that throws.
startRecordingAfterStreams(h, n, withMic, hasDisplayAudio, failAt) ==
    IF failAt = "audioContext" THEN h
    ELSE
    LET h1 == [h EXCEPT !.audioContextRef = n]
    IN  IF failAt = "mixer" THEN h1
        ELSE
        LET h2 == [h1 EXCEPT
                      !.trackState[<<n, "mixed">>] =
                          IF hasDisplayAudio \/ withMic THEN "live" ELSE @,
                      !.streamRef = n]
        IN  IF failAt = "setup" THEN h2
            ELSE
            LET h3 == [h2 EXCEPT !.mediaRecorderRef = n,
                                 !.chunksRef = <<>>,
                                 !.startTimeRef = h2.now,
                                 !.recState[n] = "recording"]
            IN  SetState(h3, [h3.state EXCEPT !.isRecording = TRUE])

\* createAudioMixer returns null before it touches the context when there
\* is no audio at all, so it can throw only otherwise.
CanFailAt(failAt, withMic, hasDisplayAudio) ==
    failAt = "mixer" => (hasDisplayAudio \/ withMic)

HookInit ==
    /\ state = InitialState
    /\ mounted = TRUE
    /\ mediaRecorderRef = NullRef
    /\ streamRef = NullRef
    /\ chunksRef = <<>>
    /\ audioContextRef = NullRef
    /\ startTimeRef = NullRef
    /\ recState = [n \in Attempts |-> "none"]
    /\ events = <<>>
    /\ trackState = [t \in TrackIds |-> "none"]
    /\ ctxClosed = {}
    /\ urlBlob = <<>>
    /\ revoked = {}
    /\ now = 1
    /\ dataCount = [n \in Attempts |-> 0]
    /\ pc = [n \in Attempts |-> "notCalled"]
    /\ call = [n \in Attempts |->
                  [withMic |-> FALSE, hasDisplayAudio |-> FALSE]]
    /\ nAttempts = 0
    /\ delivered = [n \in Attempts |-> <<>>]
    /\ lastOp = "none"
    /\ startResult = [n \in Attempts |-> "none"]
    /\ startThrew = [n \in Attempts |-> "none"]
    /\ resetSince = FALSE

observers == <<dataCount, delivered>>

\* The startRecording calls that wait in getMediaStreams.  Nothing keeps a
\* second call from being made while an earlier one waits.
InFlight == {n \in Attempts : pc[n] \in {"awaitDisplay", "awaitMic"}}

\* startRecording up to its await: stopRecording(), then getMediaStreams.
StartRecording ==
    /\ mounted
    /\ nAttempts < MaxRecordings
    /\ \E withMic \in BOOLEAN :
          call' = [call EXCEPT ![nAttempts + 1] =
                      [withMic |-> withMic, hasDisplayAudio |-> FALSE]]
    /\ Becomes(Commit(Hook, stopRecording(Hook)))
    /\ pc' = [pc EXCEPT ![nAttempts + 1] = "awaitDisplay"]
    /\ nAttempts' = nAttempts + 1
    /\ lastOp' = "start"
    /\ resetSince' = FALSE
    /\ UNCHANGED <<startResult, startThrew, observers, utilVars, restVars, queryVars>>

\* Call n returns: it resolves to what the try/catch makes of failAt.
Returns(n, failAt) ==
    /\ pc' = [pc EXCEPT ![n] = "returned"]
    /\ startResult' = [startResult EXCEPT ![n] = startRecordingReturns(failAt)]
    /\ startThrew' = [startThrew EXCEPT ![n] = failAt]
    /\ lastOp' = IF failAt = "none" THEN "startTrue" ELSE "startFalse"

\* getDisplayMedia resolves.  With a microphone wanted getMediaStreams goes
\* on to getUserMedia; without, startRecording runs to its end.
DisplayResolves ==
    /\ \E n \in Attempts, hasDisplayAudio \in BOOLEAN :
          LET h == [Hook EXCEPT
                       !.trackState[<<n, "video">>] = "live",
                       !.trackState[<<n, "displayAudio">>] =
                           IF hasDisplayAudio THEN "live" ELSE @]
          IN  /\ pc[n] = "awaitDisplay"
              /\ call' = [call EXCEPT
                             ![n].hasDisplayAudio = hasDisplayAudio]
              /\ \/ /\ call[n].withMic
                    /\ Becomes(h)
                    /\ pc' = [pc EXCEPT ![n] = "awaitMic"]
                    /\ UNCHANGED <<lastOp, startResult, startThrew>>
                 \/ /\ ~call[n].withMic
                    /\ \E failAt \in FailSteps :
                          /\ CanFailAt(failAt, FALSE, hasDisplayAudio)
                          /\ Becomes(Commit(h, startRecordingAfterStreams(
                                 h, n, FALSE, hasDisplayAudio, failAt)))
                          /\ Returns(n, failAt)
    /\ UNCHANGED <<nAttempts, resetSince, observers, utilVars, restVars, queryVars>>

\* getDisplayMedia rejects (the user dismisses the picker).
DisplayRejects ==
    /\ \E n \in Attempts :
          /\ pc[n] = "awaitDisplay"
          /\ Returns(n, "display")
    /\ UNCHANGED <<state, mounted, mediaRecorderRef, streamRef, chunksRef,
                   audioContextRef, startTimeRef, recState, events,
                   trackState, ctxClosed, urlBlob, revoked, now, call,
                   nAttempts, resetSince, observers, utilVars, restVars, queryVars>>

\* getUserMedia resolves and startRecording runs to its end.
MicResolves ==
    /\ \E n \in Attempts :
          LET h == [Hook EXCEPT !.trackState[<<n, "mic">>] = "live"]
          IN  /\ pc[n] = "awaitMic"
              /\ \E failAt \in FailSteps :
                    /\ Becomes(Commit(h, startRecordingAfterStreams(
                           h, n, TRUE, call[n].hasDisplayAudio, failAt)))
                    /\ Returns(n, failAt)
    /\ UNCHANGED <<call, nAttempts, resetSince, observers, utilVars, restVars,
                   queryVars>>

\* getUserMedia rejects (no microphone, or permission denied).
MicRejects ==
    /\ \E n \in Attempts :
          /\ pc[n] = "awaitMic"
          /\ Returns(n, "mic")
    /\ UNCHANGED <<state, mounted, mediaRecorderRef, streamRef, chunksRef,
                   audioContextRef, startTimeRef, recState, events,
                   trackState, ctxClosed, urlBlob, revoked, now, call,
                   nAttempts, resetSince, observers, utilVars, restVars, queryVars>>

StopRecording ==
    /\ mounted
    /\ Becomes(Commit(Hook, stopRecording(Hook)))
    /\ lastOp' = "stop"
    /\ UNCHANGED <<pc, call, nAttempts, startResult, startThrew, resetSince,
                   observers, utilVars, restVars, queryVars>>

ResetRecording ==
    /\ mounted
    /\ Becomes(Commit(Hook, resetRecording(Hook)))
    /\ lastOp' = "reset"
    /\ resetSince' = (InFlight = {})
    /\ UNCHANGED <<pc, call, nAttempts, startResult, startThrew, observers,
                   utilVars, restVars, queryVars>>

\* The component unmounts: the effect's cleanup runs a last time.
Unmount ==
    /\ mounted
    /\ Becomes([effectCleanup(Hook, state.recordedVideoUrl)
                   EXCEPT !.mounted = FALSE])
    /\ lastOp' = "unmount"
    /\ UNCHANGED <<pc, call, nAttempts, startResult, startThrew, resetSince,
                   observers, utilVars, restVars, queryVars>>

\* A recording recorder fires dataavailable after a timeslice.
RecorderTimeslice ==
    /\ \E r \in Attempts :
          /\ recState[r] = "recording"
          /\ dataCount[r] < MaxChunks
          /\ events' = Append(events, [rec |-> r, type |-> "data"])
          /\ dataCount' = [dataCount EXCEPT ![r] = @ + 1]
    /\ UNCHANGED <<state, mounted, mediaRecorderRef, streamRef, chunksRef,
                   audioContextRef, startTimeRef, recState, trackState,
                   ctxClosed, urlBlob, revoked, now, pc, call, nAttempts,
                   delivered, lastOp, startResult, startThrew, resetSince,
                   utilVars, restVars, queryVars>>

\* onDataAvailable: e.data.size && chunksRef.current.push(e.data)
onDataAvailable(h, chunk, size) ==
    IF size # 0 THEN [h EXCEPT !.chunksRef = Append(@, chunk)] ELSE h

\* The next dataavailable event is delivered; its blob is empty or not.
DeliverData ==
    /\ events # <<>>
    /\ Head(events).type = "data"
    /\ \E size \in {0, 1} :
          LET r == Head(events).rec
              chunk == [rec |-> r, k |-> Len(delivered[r]) + 1]
              h == [Hook EXCEPT !.events = Tail(@)]
          IN  /\ Becomes(onDataAvailable(h, chunk, size))
              /\ delivered' = IF size # 0
                              THEN [delivered EXCEPT ![r] = Append(@, chunk)]
                              ELSE delivered
    /\ UNCHANGED <<dataCount, pc, call, nAttempts, lastOp, startResult,
                   startThrew, resetSince, utilVars, restVars, queryVars>>

\* The next stop event is delivered: onstop is handleRecordingStop.
DeliverStop ==
    /\ events # <<>>
    /\ Head(events).type = "stop"
    /\ LET h == [Hook EXCEPT !.events = Tail(@)]
       IN  Becomes(Commit(h, handleRecordingStop(h)))
    /\ UNCHANGED <<dataCount, delivered, pc, call, nAttempts, lastOp,
                   startResult, startThrew, resetSince, utilVars, restVars, queryVars>>

Tick ==
    /\ now < MaxNow
    /\ now' = now + 1
    /\ UNCHANGED <<state, mounted, mediaRecorderRef, streamRef, chunksRef,
                   audioContextRef, startTimeRef, recState, events,
                   trackState, ctxClosed, urlBlob, revoked, dataCount, pc,
                   call, nAttempts, delivered, lastOp, startResult,
                   startThrew, resetSince, utilVars, restVars, queryVars>>

HookNext ==
    \/ StartRecording
    \/ DisplayResolves
    \/ DisplayRejects
    \/ MicResolves
    \/ MicRejects
    \/ StopRecording
    \/ ResetRecording
    \/ Unmount
    \/ RecorderTimeslice
    \/ DeliverData
    \/ DeliverStop
    \/ Tick

(***************************************************************************)
(* VideoPlayer: the polling effect, the view-count effect and the iframe.  *)
(* The component, its timer and its requests in flight are one record.     *)
(***************************************************************************)
\* Most status requests in flight at once.
MaxInFlight == 2

\* Most changes of the videoId prop.
MaxVideoChanges == 1

\* Most incrementVideoViews calls of one component that are counted; the
\* calls beyond are made and not counted.
MaxPlayerIncrements == 2

\* setInterval(..., 3000), in seconds
IntervalSeconds == 3

\* initialVideoState of @/constants: nothing loaded, no view counted; the
\* component may start on either side of isProcessing.
initialVideoState(isProcessing) ==
    [isLoaded |-> FALSE, hasIncrementedView |-> FALSE,
     isProcessing |-> isProcessing]

\* setState of VideoPlayer: an update of an unmounted component is dropped.
SetPlayerState(p, s) == IF p.mounted THEN [p EXCEPT !.state = s] ELSE p

\* checkProcessingStatus() up to its await: the request is in flight.  It
\* keeps the interval of the effect that made it.
checkProcessingStatus(p, viaInterval) ==
    [p EXCEPT !.checks =
        Append(@, [gen |-> p.gen, viaInterval |-> viaInterval,
                   videoId |-> p.videoId,
                   sawProcessed |-> p.videoId \in p.processed])]

\* The polling effect: one check at once, then the interval.
pollingEffect(p) ==
    [checkProcessingStatus([p EXCEPT !.gen = @ + 1], FALSE)
        EXCEPT !.intervalActive = TRUE, !.elapsed = 0]

\* The cleanup of the polling effect: clearInterval(intervalId).
pollingCleanup(p) == [p EXCEPT !.intervalActive = FALSE]

\* The view-count effect: incs counts the calls in flight, incCalled the
\* calls made.
incrementEffect(p) ==
    LET More(n) == IF n < MaxPlayerIncrements THEN n + 1 ELSE n
    IN  IF p.state.isLoaded /\ ~p.state.hasIncrementedView
           /\ ~p.state.isProcessing
        THEN [p EXCEPT !.incs = More(@), !.incCalled = More(@)]
        ELSE p

\* The render after a handler and the effects whose dependencies changed:
\* the iframe is there when the video is not processing and loads when it
\* appears or its src changes.
PlayerCommit(old, new) ==
    IF ~new.mounted THEN new
    ELSE
    LET videoChanged == new.videoId # old.videoId
        p1 == [new EXCEPT !.iframeLoading =
                  IF new.state.isProcessing THEN FALSE
                  ELSE IF old.state.isProcessing \/ videoChanged THEN TRUE
                  ELSE @]
        p2 == IF videoChanged THEN pollingEffect(pollingCleanup(p1)) ELSE p1
    IN  IF videoChanged \/ new.state # old.state
        THEN incrementEffect(p2) ELSE p2

\* Faulty variant of afterStatus: the interval is never cleared.
afterStatus_neverClears(p, req, isProcessed) ==
    SetPlayerState(p, [p.state EXCEPT !.isProcessing = isProcessed # "true"])

\* checkProcessingStatus after its await, and the interval callback after
\* it: isProcessed is status.isProcessed, "undefined" when the action
\* returned an error message.
afterStatus(p, req, isProcessed) ==
    LET p1 == SetPlayerState(p, [p.state EXCEPT
                                    !.isProcessing = isProcessed # "true"])
    IN  IF req.viaInterval /\ isProcessed = "true" /\ req.gen = p1.gen
        THEN [p1 EXCEPT !.intervalActive = FALSE]
        ELSE p1

\* The component mounted on a video: both effects have run.
PlayerInit ==
    \E videoId \in {"v1"}, processed \in SUBSET VideoIds,
       isProcessing \in BOOLEAN :
       vp = incrementEffect(pollingEffect(
                [mounted |-> TRUE, videoId |-> videoId,
                 state |-> initialVideoState(isProcessing),
                 gen |-> 0, intervalActive |-> FALSE, elapsed |-> 0,
                 checks |-> <<>>, incs |-> 0, incCalled |-> 0,
                 iframeLoading |-> ~isProcessing, processed |-> processed,
                 changes |-> 0]))

\* The next state of the component.
PlayerBecomes(p) ==
    /\ vp' = p
    /\ UNCHANGED <<limiter, srvNow, act, incCalls, videos0, utilVars,
                   queryVars, hookVars>>

\* A status request is answered: with the video's state at Bunny, with the
\* state it had when the request was made, or with an error message.
StatusResolves ==
    \E i \in 1..Len(vp.checks),
       isProcessed \in {"true", "false", "undefined"} :
       LET req == vp.checks[i]
           p == [vp EXCEPT !.checks =
                    SubSeq(@, 1, i - 1) \o SubSeq(@, i + 1, Len(@))]
       IN  /\ isProcessed = "true" => req.videoId \in vp.processed
           /\ isProcessed = "false" => ~req.sawProcessed
           /\ PlayerBecomes(PlayerCommit(p, afterStatus(p, req, isProcessed)))

\* A second passes on the interval's timer.
Second ==
    /\ vp.intervalActive
    /\ vp.elapsed < IntervalSeconds
    /\ PlayerBecomes([vp EXCEPT !.elapsed = @ + 1])

\* The interval's callback runs.
IntervalFires ==
    /\ vp.intervalActive
    /\ vp.elapsed = IntervalSeconds
    /\ Len(vp.checks) < MaxInFlight
    /\ PlayerBecomes(checkProcessingStatus([vp EXCEPT !.elapsed = 0], TRUE))

\* Bunny finishes encoding a video.
BecomesProcessed ==
    \E videoId \in VideoIds \ vp.processed :
       PlayerBecomes([vp EXCEPT !.processed = @ \cup {videoId}])

\* onLoad of the iframe.
IframeLoads ==
    /\ vp.mounted
    /\ vp.iframeLoading
    /\ LET p == [vp EXCEPT !.iframeLoading = FALSE]
       IN  PlayerBecomes(PlayerCommit(p,
               SetPlayerState(p, [p.state EXCEPT !.isLoaded = TRUE])))

\* incrementVideoViews resolves, with {} or with an error message: the
\* wrapper never throws, so hasIncrementedView is set.
IncrementResolves ==
    /\ vp.incs > 0
    /\ LET p == [vp EXCEPT !.incs = @ - 1]
       IN  PlayerBecomes(PlayerCommit(p,
               SetPlayerState(p, [p.state EXCEPT
                                     !.hasIncrementedView = TRUE])))

\* The page passes another videoId.
VideoIdChanges ==
    /\ vp.mounted
    /\ vp.changes < MaxVideoChanges
    /\ Len(vp.checks) < MaxInFlight
    /\ \E videoId \in VideoIds \ {vp.videoId} :
          PlayerBecomes(PlayerCommit(vp,
              [vp EXCEPT !.videoId = videoId, !.changes = @ + 1]))

PlayerUnmount ==
    /\ vp.mounted
    /\ PlayerBecomes(pollingCleanup([vp EXCEPT !.mounted = FALSE,
                                               !.iframeLoading = FALSE]))

\* An interval check of the running effect is answered: processed.
StatusReportsProcessed ==
    \E i \in 1..Len(vp.checks) :
       LET req == vp.checks[i]
           p == [vp EXCEPT !.checks =
                    SubSeq(@, 1, i - 1) \o SubSeq(@, i + 1, Len(@))]
       IN  /\ req.videoId \in vp.processed
           /\ req.viaInterval /\ req.gen = vp.gen
           /\ PlayerBecomes(PlayerCommit(p, afterStatus(p, req, "true")))

PlayerNext ==
    \/ StatusResolves
    \/ Second
    \/ IntervalFires
    \/ BecomesProcessed
    \/ IframeLoads
    \/ IncrementResolves
    \/ VideoIdChanges
    \/ PlayerUnmount

PlayerIdle == vp = [mounted |-> FALSE]

(***************************************************************************)
(* The specifications.                                                     *)
(***************************************************************************)
\* The parts a specification leaves alone stay as constructed.
QueryIdle ==
    /\ session = NoSession
    /\ users = UserIds
    /\ videos = <<>>
    /\ qres = [fn |-> "none"]
    /\ browse = NoBrowse

InitUtils == UtilsInit /\ QueryIdle /\ HookInit /\ ActionsIdle /\ PlayerIdle

InitQuery == UtilsInit /\ QueryInit /\ HookInit /\ ActionsIdle /\ PlayerIdle

InitHook == UtilsInit /\ QueryIdle /\ HookInit /\ ActionsIdle /\ PlayerIdle

InitActions == UtilsInit /\ ActionsInit /\ HookInit /\ PlayerIdle

SpecUtils == InitUtils /\ [][UtilsNext]_vars

SpecViews == InitActions /\ [][ViewsNext]_vars

SpecActions == InitActions /\ [][ActionsNext]_vars

InitPlayer == UtilsInit /\ QueryIdle /\ HookInit /\ ActionsIdle /\ PlayerInit

SpecPlayer == InitPlayer /\ [][PlayerNext]_vars

\* The browser runs a timer that is due and delivers a response that came;
\* the status request does not fail for ever.
SpecPlayerFair ==
    /\ SpecPlayer
    /\ WF_vars(Second)
    /\ WF_vars(IntervalFires)
    /\ WF_vars(StatusResolves)
    /\ SF_vars(StatusReportsProcessed)

SpecQuery == InitQuery /\ [][QueryNext]_vars

SpecHook == InitHook /\ [][HookNext]_vars

(***************************************************************************)
(* Properties of the helpers (SpecUtils).                                  *)
(***************************************************************************)
\* C1: for every async function fn and every argument list, the promise of
\* withErrorHandling(fn)(...args) never rejects; it resolves to fn's result
\* when fn resolves, to the Error's message when fn throws an Error, and to
\* "Unknown error occurred" when fn throws anything else.
C1_WrapperNeverRejects ==
    utilCall.op = "withErrorHandling" =>
        LET outcome == utilCall.fn[utilCall.args]
            result == utilCall.result
        IN  /\ result.kind = "resolved"
            /\ outcome.kind = "returned" => result.value = outcome.value
            /\ (outcome.kind = "threw" /\ outcome.isError) =>
                  result.value = [t |-> "string", v |-> outcome.message]
            /\ (outcome.kind = "threw" /\ ~outcome.isError) =>
                  result.value = [t |-> "string", v |-> "Unknown error occurred"]

\* C1 witness: a wrapped function threw a value that is no Error and the
\* wrapper resolved to the fixed message.
C1_Witness ==
    /\ utilCall.op = "withErrorHandling"
    /\ utilCall.fn[utilCall.args].kind = "threw"
    /\ ~utilCall.fn[utilCall.args].isError
    /\ utilCall.result = Resolved(JsStr("Unknown error occurred"))

\* C8: for totalPages >= 0 and 1 <= currentPage <= totalPages,
\* generatePagination returns 1..totalPages when totalPages <= 7 and
\* otherwise seven entries: 1 2 3 4 5 ... t near the start, 1 ... t-4 t-3
\* t-2 t-1 t near the end, and 1 ... c-1 c c+1 ... t in between.
C8_PaginationShape ==
    (/\ utilCall.op = "generatePagination"
     /\ utilCall.totalPages >= 0
     /\ 1 <= utilCall.currentPage
     /\ utilCall.currentPage <= utilCall.totalPages) =>
        LET c == utilCall.currentPage
            t == utilCall.totalPages
            r == utilCall.result
        IN  IF t <= 7
            THEN Len(r) = t /\ \A i \in 1..t : r[i] = i
            ELSE /\ Len(r) = 7
                 /\ r[1] = 1
                 /\ r[7] = t
                 /\ IF c <= 3
                    THEN /\ \A i \in 2..5 : r[i] = i
                         /\ r[6] = Ellipsis
                    ELSE IF c >= t - 2
                    THEN /\ r[2] = Ellipsis
                         /\ \A i \in 3..6 : r[i] = t - 7 + i
                    ELSE /\ r[2] = Ellipsis
                         /\ r[3] = c - 1 /\ r[4] = c /\ r[5] = c + 1
                         /\ r[6] = Ellipsis

\* C8 witness: more than seven pages and a current page two before the
\* last, where the tail window applies.
C8_Witness ==
    /\ utilCall.op = "generatePagination"
    /\ utilCall.totalPages > 7
    /\ utilCall.currentPage = utilCall.totalPages - 2
    /\ utilCall.result[6] = utilCall.totalPages - 1

\* The values a parameter list holds for a name, in order.
ValuesOf(params, name) ==
    LET hits == SelectSeq(params, LAMBDA p : p[1] = name)
    IN  [i \in 1..Len(hits) |-> hits[i][2]]

\* C9: updateURLParams returns basePath, "?" and the serialization of a
\* parameter list in which every name of updates with a non-empty string
\* has exactly that value, every name of updates with null, undefined or ""
\* is absent, and the parameters not named in updates are those of
\* currentParams; currentParams itself is as it was.
C9_UrlParamsMerged ==
    utilCall.op = "updateURLParams" =>
        LET base == utilCall.basePath
            url == utilCall.result
            updates == utilCall.updates
            named == {updates[i][1] : i \in 1..Len(updates)}
            Others(params) == SelectSeq(params, LAMBDA p : p[1] \notin named)
            got == URLSearchParams_parse(
                       SubSeq(url, Len(base) + 2, Len(url)))
        IN  /\ Len(url) >= Len(base) + 1
            /\ SubSeq(url, 1, Len(base) + 1) = base \o <<"?">>
            /\ \A i \in 1..Len(updates) :
                  ValuesOf(got, updates[i][1]) =
                      IF updates[i][2].t = "string" /\ updates[i][2].v # <<>>
                      THEN <<updates[i][2].v>>
                      ELSE <<>>
            /\ Others(got) = Others(utilCall.currentParams)
            /\ utilCall.currentParamsAfter = utilCall.currentParams

\* C9 witness: one call that sets a name, removes another that was
\* present, and keeps a third whose value needs escaping.
C9_Witness ==
    /\ utilCall.op = "updateURLParams"
    /\ utilCall.currentParams =
          <<<<<<"q">>, <<"1">>>>, <<<<"x", "=">>, <<"a", " ", "&", "b">>>>>>
    /\ utilCall.updates = <<<<<<"p">>, JsStr(<<"1">>)>>, <<<<"q">>, JsNull>>>>
    /\ utilCall.result =
          <<"/", "?", "x", "%", "3", "D", "=", "a", "+", "%", "2", "6", "b",
            "&", "p", "=", "1">>

(***************************************************************************)
(* Properties of the queries (SpecQuery).                                  *)
(***************************************************************************)
\* The rows a resolved query handed to its caller; none when it resolved
\* to an error message.
RowsReturned ==
    IF qres.fn \in {"getAllVideos", "getAllVideosByUser"}
       /\ qres.result.kind = "resolved"
       /\ qres.result.value.t = "object"
    THEN {qres.result.value.v.videos[i].video :
             i \in 1..Len(qres.result.value.v.videos)}
    ELSE {}

\* C2: whatever the table, the caller and the search, sort and page
\* arguments, no video that is private and owned by somebody other than
\* the caller's session user is in the result of getAllVideos or of
\* getAllVideosByUser.
C2_NoForeignPrivateVideo ==
    \A row \in RowsReturned :
        row.visibility = "private" => row.userId = session

\* C2 witness: the table holds a private video of another user, and a
\* query for that user's videos returned some of them.
C2_Witness ==
    /\ qres.fn = "getAllVideosByUser"
    /\ RowsReturned # {}
    /\ \E row \in TableRows :
          /\ row.visibility = "private"
          /\ row.userId # session
          /\ \A got \in RowsReturned : got.userId = row.userId

\* The videos the visitor may see that match the search of the pages kept.
VisibleMatching ==
    {row \in TableRows : whereCondition(row, session, browse.search)}

\* How often a video id occurs on the pages kept.
Occurrences(id) ==
    Cardinality({<<p, i>> \in (1..MaxPage) \X (1..MaxVideos) :
                    /\ browse.pages[p].got
                    /\ i <= Len(browse.pages[p].ids)
                    /\ browse.pages[p].ids[i] = id})

\* C10: on a fixed table, every page of getAllVideos reports totalVideos as
\* the number of visible matching videos and totalPages as its quotient by
\* pageSize rounded up, and holds at most pageSize records; once pages
\* 1..totalPages have been fetched they hold every visible matching video
\* exactly once.
C10_PagesPartitionTheVideos ==
    \A p \in 1..MaxPage :
        browse.pages[p].got =>
            /\ browse.pages[p].totalVideos = Cardinality(VisibleMatching)
            /\ browse.pages[p].totalPages =
                  Ceil(Cardinality(VisibleMatching), browse.pageSize)
            /\ Len(browse.pages[p].ids) <= browse.pageSize
            /\ (\A q \in 1..browse.pages[p].totalPages :
                    q <= MaxPage /\ browse.pages[q].got) =>
                  \A row \in VisibleMatching : Occurrences(row.id) = 1

(***************************************************************************)
(* Properties of the recording hook (SpecHook).                            *)
(***************************************************************************)
\* The tracks getMediaStreams acquired that are still live.
LiveAcquiredTracks ==
    {t \in TrackIds :
        t[2] \in {"video", "displayAudio", "mic"} /\ trackState[t] = "live"}

\* C3: whenever the hook is not recording (no startRecording call is in
\* flight and the last operation was stopRecording, resetRecording, the
\* unmount, or a startRecording that returned false), every display and
\* microphone track that getMediaStreams acquired has been stopped.
C3_TracksStoppedWhenNotRecording ==
    (InFlight = {} /\ lastOp \in {"stop", "reset", "unmount", "startFalse"})
        => LiveAcquiredTracks = {}

\* C4: after resetRecording (called while no startRecording call is in
\* flight), once every pending recorder event has been delivered, the
\* state is isRecording = false, recordedBlob = null, recordedVideoUrl = ""
\* and recordingDuration = 0, until the next startRecording.
C4_ResetLeavesInitialState ==
    (mounted /\ resetSince /\ InFlight = {} /\ events = <<>>)
        => state = InitialState

\* C5: when a recorder's stop event is handled, recordedBlob holds exactly
\* the non-empty chunks that this recorder delivered, in order,
\* recordedVideoUrl is an object URL of that blob, and isRecording is false.
C5_BlobIsThisRecordingsChunks ==
    [][(/\ mounted
        /\ events # <<>>
        /\ Head(events).type = "stop"
        /\ events' = Tail(events))
       => /\ state'.recordedBlob =
                [null |-> FALSE, parts |-> delivered[Head(events).rec]]
          /\ state'.recordedVideoUrl \in 1..Len(urlBlob')
          /\ urlBlob'[state'.recordedVideoUrl] = state'.recordedBlob
          /\ ~state'.isRecording]_vars

\* C6: a startRecording call never rejects; it resolves to true only with
\* its MediaRecorder recording and isRecording true, it resolves to false
\* whenever stream acquisition, the audio mixer or the recorder setup
\* threw, and when it resolves to false isRecording is false.  (An
\* unmounted component has no state to look at.)
C6_StartRecordingResolves ==
    [][\A n \in Attempts :
        (pc[n] # "returned" /\ pc'[n] = "returned")
        => /\ startResult'[n] \in {"true", "false"}
           /\ startResult'[n] = "true" =>
                 /\ recState'[n] = "recording"
                 /\ mounted' => state'.isRecording
           /\ startThrew'[n] # "none" => startResult'[n] = "false"
           /\ startResult'[n] = "false" =>
                 (mounted' => ~state'.isRecording)]_vars

\* C7: an object URL held in recordedVideoUrl is revoked by the time it is
\* replaced, cleared or the hook unmounts, and a mounted hook never holds
\* in recordedVideoUrl a URL that was revoked.
C7_UrlRevokedWhenDropped ==
    [][/\ mounted' => state'.recordedVideoUrl \notin revoked'
       /\ (/\ mounted
           /\ state.recordedVideoUrl # NoUrl
           /\ (~mounted' \/ state'.recordedVideoUrl # state.recordedVideoUrl))
          => state.recordedVideoUrl \in revoked']_vars

\* C7 witness: a second recording's URL has replaced the first one's, which
\* is revoked.
C7_Witness ==
    /\ mounted
    /\ state.recordedVideoUrl = 2
    /\ revoked = {1}

(***************************************************************************)
(* Properties of the view counter (SpecViews).                             *)
(***************************************************************************)
\* The incrementVideoViews calls on a video that resolved to {}.
IncrementsDone(videoId) ==
    {c \in 1..MaxIncrements :
        /\ incCalls[c].pc = "returned"
        /\ incCalls[c].videoId = videoId
        /\ incCalls[c].result = Resolved(JsObj([empty |-> TRUE]))}

\* C11: the view count increment is atomic: once all the incrementVideoViews
\* calls that were made have completed, in whatever order their statements
\* ran, each video's stored view count has grown by exactly the number of
\* calls on that video that succeeded, and so the count of a video no call
\* was about is unchanged.
C11_IncrementsAllCounted ==
    (\A c \in 1..MaxIncrements : incCalls[c].pc # "called") =>
        /\ Len(videos) = Len(videos0)
        /\ \A i \in 1..Len(videos) :
              videos[i].views =
                  videos0[i].views
                  + Cardinality(IncrementsDone(videos[i].videoId))

\* C11 witness: three calls on v1 have all completed with {}, and v1 was
\* viewed three times more while the video v2 beside it was not.
C11_Witness ==
    /\ \A c \in 1..MaxIncrements :
          /\ incCalls[c].pc = "returned"
          /\ incCalls[c].videoId = "v1"
          /\ incCalls[c].result = Resolved(JsObj([empty |-> TRUE]))
    /\ Len(videos) = 2
    /\ videos[1].videoId = "v1" /\ videos[1].views = 3
    /\ videos[2].videoId = "v2" /\ videos[2].views = 0

(***************************************************************************)
(* Properties of the server actions that write (SpecActions).              *)
(***************************************************************************)
\* The step is a call of the server action op.
Ran(op) == act'.n = act.n + 1 /\ act'.op = op

\* The action of this step made its requests in the given order and made
\* none after one that failed.
RequestsInOrder(order) ==
    LET requests == act'.requests
    IN  /\ Len(requests) \in 1..Len(order)
        /\ \A i \in 1..Len(requests) : requests[i].to = order[i]
        /\ \A i \in 1..(Len(requests) - 1) : requests[i].ok

\* Every request the action of this step could make was made and went well.
AllWentWell(order) ==
    /\ Len(act'.requests) = Len(order)
    /\ \A i \in 1..Len(order) : act'.requests[i].ok

\* C12: saveVideoDetails checks, in this order, the session, the per-user
\* fixed-window rate limit (the third call of a user in a window is denied)
\* and the Bunny metadata update, and inserts a row only when all three went
\* well; when one fails the table is unchanged and the caller gets an error
\* message instead of {videoId}; the inserted row's userId is the
\* session's user id, whatever videoDetails carried.
C12_SaveChecksThenInserts ==
    [][Ran("saveVideoDetails") =>
        LET order == <<"getSession", "arcjet", "bunnyUpdate", "insert">>
            requests == act'.requests
            videoDetails == act'.args[1]
        IN  /\ RequestsInOrder(order)
            /\ requests[1].ok = (session # NoSession)
            /\ Len(requests) >= 2 =>
                  /\ requests[2].ok = (limiter[session] < RateLimitMax)
                  /\ requests[2].ok =>
                        limiter'[session] = limiter[session] + 1
            /\ IF AllWentWell(order)
               THEN /\ Len(videos') = Len(videos) + 1
                    /\ SubSeq(videos', 1, Len(videos)) = videos
                    /\ videos'[Len(videos')].userId = session
                    /\ videos'[Len(videos')].videoId = videoDetails.videoId
                    /\ act'.result =
                          Resolved(JsObj([videoId |-> videoDetails.videoId]))
               ELSE /\ videos' = videos
                    /\ act'.result.kind = "resolved"
                    /\ act'.result.value.t = "string"]_vars

\* C12 witness: u1 saved a video whose details carried the userId u2; the
\* row is u1's.
C12_Witness ==
    /\ act.op = "saveVideoDetails"
    /\ act.args[1].userId = "u2"
    /\ act.result = Resolved(JsObj([videoId |-> act.args[1].videoId]))
    /\ session = "u1"
    /\ videos[Len(videos)].userId = "u1"

C14_DeletesInOrder ==
    [][Ran("deleteVideo") =>
        LET order == <<"deleteStream", "deleteThumbnail", "deleteRow">>
            videoId == act'.args[1]
        IN  /\ RequestsInOrder(order)
            /\ (act'.result = Resolved(JsObj([empty |-> TRUE])))
                  = AllWentWell(order)
            /\ IF AllWentWell(order)
               THEN videos' = SelectSeq(videos,
                                        LAMBDA row : row.videoId # videoId)
               ELSE /\ videos' = videos
                    /\ act'.result.value.t = "string"]_vars

\* C14 witness: the stream video was deleted, the thumbnail deletion failed,
\* and the row of the video is still there.
C14_Witness ==
    /\ act.op = "deleteVideo"
    /\ Len(act.requests) = 2
    /\ act.requests[1].ok
    /\ ~act.requests[2].ok
    /\ \E i \in 1..Len(videos) : videos[i].videoId = act.args[1]

(***************************************************************************)
(* Properties of the middleware (SpecUtils).                               *)
(***************************************************************************)
\* C15: for every request whose path matches the middleware matcher, the
\* request proceeds to the application only if Arcjet returned no response
\* and a session exists; a response of Arcjet is returned without asking
\* for the session; a request Arcjet lets pass that has no session is
\* redirected to /sign-in.
C15_MiddlewareGuardsThePages ==
    (utilCall.op = "middleware" /\ matcher(utilCall.path)) =>
        LET result == utilCall.result
        IN  /\ result.response = "next" =>
                  (utilCall.arcjetResult = "undefined" /\ utilCall.hasSession)
            /\ utilCall.arcjetResult # "undefined" =>
                  (result.response = utilCall.arcjetResult /\ ~result.asked)
            /\ (utilCall.arcjetResult # "forbidden" /\ ~utilCall.hasSession) =>
                  result.response = "redirect /sign-in"

(***************************************************************************)
(* Properties of the video page (SpecQuery).                               *)
(***************************************************************************)
\* C16: when getVideoById finds no video for the route's videoId, the video
\* page redirects to /404, and it neither fetches the transcript nor
\* renders the player.
C16_MissingVideoRedirects ==
    (/\ qres.fn = "videoPage"
     /\ \A i \in 1..Len(videos) : videos[i].id # qres.videoId)
    => /\ qres.page.response = "redirect /404"
       /\ ~qres.page.transcript
       /\ ~qres.page.player

\* The stop events of recorder r waiting in a queue of events.
StopsQueued(ev, r) ==
    Cardinality({i \in 1..Len(ev) : ev[i].rec = r /\ ev[i].type = "stop"})

\* C17: stopRecording is idempotent: applied twice it leaves what it leaves
\* applied once; stop() is called on a recorder only when it is not
\* inactive, so a recorder once inactive stays so, has at most one stop
\* event queued, and the stop handler has run once for each inactive
\* recorder whose stop event is not waiting; a stopRecording issued while no
\* recording is active leaves recordedBlob, recordedVideoUrl and
\* recordingDuration, and the recorders, as they are.
C17_StopRecordingIdempotent ==
    [][/\ stopRecording(stopRecording(Hook)) = stopRecording(Hook)
       /\ \A r \in Attempts :
             /\ StopsQueued(events', r) > StopsQueued(events, r) =>
                   (recState[r] = "recording" /\ recState'[r] = "inactive")
             /\ recState[r] = "inactive" => recState'[r] = "inactive"
             /\ StopsQueued(events', r) <= 1
       /\ Len(urlBlob') + Cardinality({i \in 1..Len(events') :
                                          events'[i].type = "stop"})
             = Cardinality({r \in Attempts : recState'[r] = "inactive"})
       /\ (mediaRecorderRef = NullRef
           \/ recState[mediaRecorderRef] # "recording") =>
             LET h == Commit(Hook, stopRecording(Hook))
             IN  /\ h.state.recordedBlob = state.recordedBlob
                 /\ h.state.recordedVideoUrl = state.recordedVideoUrl
                 /\ h.state.recordingDuration = state.recordingDuration
                 /\ h.recState = recState
                 /\ h.events = events]_vars

\* C17 witness: the one recorder was stopped by stopRecording, its stop
\* handler ran once, and the effect's cleanup that followed called
\* stopRecording again on the inactive recorder.
C17_Witness ==
    /\ lastOp = "stop"
    /\ mediaRecorderRef = 1
    /\ recState[1] = "inactive"
    /\ recState[2] = "none"
    /\ events = <<>>
    /\ Len(urlBlob) = 1
    /\ state.recordedVideoUrl = 1

(***************************************************************************)
(* Properties of VideoPlayer (SpecPlayer, SpecPlayerFair).                 *)
(***************************************************************************)
\* The step made a status request.
StatusRequested == Len(vp'.checks) = Len(vp.checks) + 1

\* C18: a mounted VideoPlayer has made one status check at once; each
\* polling effect makes one check when it is set up, and every other check
\* is made by the interval when its 3 seconds have passed; the interval is
\* cleared, while the component stays on its video, only by the answer of
\* an interval check that said processed, and once it is cleared no status
\* request is made; unmounting clears the interval and a change of videoId
\* replaces it by the next effect's; and when the video is processed the
\* interval is cleared in the end.
C18_PollingStopsWhenProcessed ==
    /\ Len(vp.checks) = 1 /\ ~vp.checks[1].viaInterval /\ vp.intervalActive
    /\ [][LET new == vp'.checks[Len(vp'.checks)]
          IN  /\ StatusRequested =>
                    \/ /\ vp'.gen = vp.gen + 1
                       /\ ~new.viaInterval /\ new.gen = vp'.gen
                       /\ vp'.intervalActive /\ vp'.elapsed = 0
                    \/ /\ vp'.gen = vp.gen
                       /\ new.viaInterval /\ new.gen = vp.gen
                       /\ vp.intervalActive
                       /\ vp.elapsed = IntervalSeconds /\ vp'.elapsed = 0
              /\ vp'.gen # vp.gen => StatusRequested
              /\ (~vp.intervalActive /\ vp'.gen = vp.gen) =>
                    (~StatusRequested /\ ~vp'.intervalActive)
              /\ (vp.intervalActive /\ ~vp'.intervalActive /\ vp'.mounted) =>
                    /\ Len(vp'.checks) = Len(vp.checks) - 1
                    /\ ~vp'.state.isProcessing
                    /\ vp.videoId \in vp.processed
              /\ ~vp'.mounted => ~vp'.intervalActive
              /\ vp'.videoId # vp.videoId => vp'.gen = vp.gen + 1]_vars
    /\ (vp.mounted /\ vp.videoId \in vp.processed)
          ~> (~vp.intervalActive \/ vp.videoId \notin vp.processed)

\* C18 witness: the component is mounted on a processed video, the interval
\* has run at least once and is cleared, and no request is in flight.
C18_Witness ==
    /\ vp.mounted
    /\ vp.videoId \in vp.processed
    /\ ~vp.intervalActive
    /\ ~vp.state.isProcessing
    /\ vp.checks = <<>>
    /\ vp.changes = 0

\* C19: a mounted VideoPlayer calls incrementVideoViews only while the
\* iframe has loaded and the video is not processing, and at most once in
\* the lifetime of the component.
C19_ViewCountedOnce ==
    [][/\ vp'.incCalled <= 1
       /\ vp'.incCalled > vp.incCalled =>
             (vp'.state.isLoaded /\ ~vp'.state.isProcessing)]_vars

(***************************************************************************)
(* Properties of the upload form (SpecUtils).                              *)
(***************************************************************************)
\* C20: handleSubmit calls no server action and uploads nothing unless a
\* video file, a thumbnail file, a title and a description are all there;
\* when they are, it goes in the order getVideoUploadUrl, video upload,
\* getThumbnailUploadUrl, thumbnail upload, saveVideoDetails, each made
\* only when the one before went well, so saveVideoDetails is called only
\* after both uploads were answered OK.
C20_UploadStepsInOrder ==
    utilCall.op = "handleSubmit" =>
        LET order == <<"getVideoUploadUrl", "uploadVideo",
                       "getThumbnailUploadUrl", "uploadThumbnail",
                       "saveVideoDetails">>
            form == utilCall.form
            requests == utilCall.result.requests
            complete == /\ form.video /\ form.thumbnail
                        /\ form.title /\ form.description
        IN  /\ ~complete => requests = <<>>
            /\ complete => Len(requests) >= 1
            /\ Len(requests) <= Len(order)
            /\ \A i \in 1..Len(requests) :
                  /\ requests[i].to = order[i]
                  /\ requests[i].ok = utilCall.ok[i]
                  /\ i > 1 => requests[i - 1].ok
            /\ Len(requests) = 5 => (requests[2].ok /\ requests[4].ok)
            /\ utilCall.result.pushed => Len(requests) = 5

\* C20 witness: the form was complete, the video went up, and the thumbnail
\* upload was not answered OK: four requests, no saveVideoDetails.
C20_Witness ==
    /\ utilCall.op = "handleSubmit"
    /\ Len(utilCall.result.requests) = 4
    /\ utilCall.result.requests[2].ok
    /\ ~utilCall.result.requests[4].ok
    /\ ~utilCall.result.pushed

(***************************************************************************)
(* Properties of the video header (SpecActions).                           *)
(***************************************************************************)
\* C21: after handleVisibilityChange(option) completes, isUpdating is false
\* and the visibilityState the header shows is the visibility stored for
\* the video; it is option only if updateVideoVisibility updated the
\* database.
C21_HeaderShowsStoredVisibility ==
    act.op = "handleVisibilityChange" =>
        /\ ~act.header.isUpdating
        /\ act.header.visibilityState = videos[act.row].visibility
        /\ act.header.visibilityState = act.args[2] =>
              /\ Len(act.requests) = 2
              /\ act.requests[1].ok /\ act.requests[2].ok

\* C22: once the startRecording call of the current recorder has returned
\* true, isRecording stays true and that recorder keeps recording until
\* stopRecording, resetRecording, unmount or another startRecording is
\* requested: no other step, and in particular no event of a previous
\* recorder, sets isRecording to false or stops the current recorder, and
\* an event of a previous recorder does not write recordedBlob.
C22_LateEventsLeaveTheRecording ==
    [][(/\ mounted
        /\ mediaRecorderRef # NullRef
        /\ startResult[mediaRecorderRef] = "true"
        /\ state.isRecording
        /\ recState[mediaRecorderRef] = "recording"
        /\ ~(StopRecording \/ ResetRecording \/ Unmount \/ StartRecording))
       => /\ state'.isRecording
          /\ recState'[mediaRecorderRef] = "recording"
          /\ ((DeliverStop \/ DeliverData)
              /\ Head(events).rec # mediaRecorderRef)
                => state'.recordedBlob = state.recordedBlob]_vars


\* C23: getVideoById returns a private video only to a caller whose session
\* user is the owner of the video: the record the video page got for any
\* other caller is never a private video.
C23_PrivateVideoOnlyForOwner ==
    (/\ qres.fn = "videoPage"
     /\ qres.result.value.t = "object"
     /\ qres.result.value.v.video.visibility = "private")
    => qres.result.value.v.video.userId = session


\* The lines of a transcript that match the time pattern.
TimeLinesOf(lines) == {i \in 1..Len(lines) : lines[i].kind = "time"}

\* The text lines after the time line i and before the next time line.
TextLinesOf(lines, i) ==
    {j \in (i + 1)..Len(lines) :
        /\ lines[j].kind = "text"
        /\ \A m \in (i + 1)..j : lines[m].kind # "time"}

\* The texts of the lines J in input order.
RECURSIVE TextsAt(_, _)
TextsAt(lines, J) ==
    IF J = {} THEN <<>>
    ELSE LET j == CHOOSE x \in J : \A y \in J : x <= y
         IN  <<lines[j].text>> \o TextsAt(lines, J \ {j})

\* Every entry has a time line of its own, in the order of the entries, and
\* its text is one to three text lines of that time line.
EntriesFromTheirCues(lines, result) ==
    \/ result = <<>>
    \/ \E f \in [1..Len(result) -> TimeLinesOf(lines)] :
          /\ \A k, l \in 1..Len(result) : k < l => f[k] <= f[l]
          /\ \A k \in 1..Len(result) :
                /\ result[k].time = lines[f[k]].start
                /\ \E J \in SUBSET TextLinesOf(lines, f[k]) :
                      /\ Cardinality(J) \in 1..3
                      /\ result[k].text = TextsAt(lines, J)

\* C24: every entry that parseTranscript returns carries the start time of
\* one time line of the transcript and a text made of one to three text
\* lines that come after that time line and before the next time line,
\* joined in input order; the entries are in input order.
C24_EntriesFromTheirCues ==
    utilCall.op = "parseTranscript"
    => EntriesFromTheirCues(utilCall.transcript.lines, utilCall.result)

=============================================================================
